---- MODULE Spec2Model ----
(***************************************************************************)
(* Sentinel-2 true colour downloader: coverage evaluation and date         *)
(* selection (src/src/aoi_handler.py, src/src/sentinel2_query.py), the     *)
(* band loader (src/src/image_processor.py) and the per-AOI orchestrator   *)
(* and driver (src/main.py).                                               *)
(***************************************************************************)
EXTENDS Integers, Sequences, FiniteSets, TLC

VARIABLES
    \* ---- coverage / selection experiments (SpecCov)
    covMode,      \* "cov" | "sel" | "off": which pure function this run exercises
    covAoi,       \* aoi_geometry argument
    covCand,      \* image_geometry argument of check_coverage
    covOut,       \* result of check_coverage, or NoResult
    selItems,     \* list(search.items()): the tiles in catalog order
    selOut,       \* result of search_sentinel2_images, or NoResult
    \* ---- load_and_crop_bands (SpecLoad)
    ldPc,         \* position in load_and_crop_bands
    ldItems,      \* items: the tiles of the date, each with the CRS of its assets
    ldGrids,      \* per band of bands_config, the pixel grid of that band's assets
    ldAoiSmall,   \* aoi_geometry lies within one pixel of every grid
    ldBand,       \* index into ['red', 'green', 'blue']
    ldItem,       \* index of the tile whose asset is being opened
    ldAttempt,    \* attempt: loop variable of the open loop, then of the crop loop
    srcFiles,     \* src_files
    openHandles,  \* datasets opened and not closed so far
    memFiles,     \* MemoryFile objects created and not closed so far
    openLog,      \* per tile, what the open loop of this band did
    cropLog,      \* what the crop step of this band did
    ldMosaic,     \* how the mosaic of this band was built, or NoResult
    rgbBands,     \* rgb_bands
    ldOut,        \* the call's outcome, or NoResult
    \* ---- resample_to_resolution / normalize_for_display (SpecRaster)
    rsMode,       \* "resample" | "normalize" | "stopped" | "off"
    rsHeap,       \* the arrays and profile dicts that exist, by object identity
    rsArr,        \* rgb_array: the identity of the current array
    rsProf,       \* profile: the identity of the current profile dict
    rsHist,       \* the calls made so far, with their arguments and results
    \* ---- the driver script (Spec)
    phase,          \* "shp" | "coord" | "overall" | "summary" | "done" | "crashed"
    shpLeft,        \* shapefile AOIs of the configuration not yet completed
    coordLeft,      \* coordinate AOIs not yet completed
    overallPending, \* the overall bounding AOI is configured and not yet attempted
    nFeat,          \* len(aoi_gdf) in individual-feature mode, else 0
    featIdx,        \* the feature being processed (1-based), else 0
    sharedFolder,   \* aoi_config['shared_folder']
    \* ---- process_aoi
    pc,             \* position in process_aoi; "idle" outside, "ret"/"exc" at its end
    paCause,        \* what raised out of process_aoi
    loc,            \* location_name
    folder,         \* folder_name
    aoiGeom,        \* aoi_geometry
    catItems,       \* what the catalog returned to the search
    datesDict,      \* dates_dict
    dateIdx,        \* idx: position in sorted(dates_dict.items())
    processed,      \* the dates whose loop body was entered, in order
    dirs,           \* the output directories this call has ensured
    doc,            \* doc.txt of the current folder
    tif0,           \* the date's GeoTIFF when the date was reached
    jpg0,           \* the date's JPEG when the date was reached
    tif,            \* the date's GeoTIFF now
    jpg,            \* the date's JPEG now
    calls,          \* the calls made for the current date, in order
    rgb,            \* rgb_array
    rgbNormalized,  \* rgb_normalized
    profile,        \* where the current profile comes from
    \* ---- process_aoi called again on the same outputs (SpecRerun)
    runNo,          \* 1 | 2: which call of process_aoi this is, 0 when off
    disk,           \* per date, the GeoTIFF and JPEG of the dates not in progress
    firstItems,     \* what the catalog returned to the first call
    runLog          \* per finished date of either call: its calls and files

covVars == <<covMode, covAoi, covCand, covOut, selItems, selOut>>

ldVars == <<ldPc, ldItems, ldGrids, ldAoiSmall, ldBand, ldItem, ldAttempt, srcFiles,
            openHandles, memFiles, openLog, cropLog, ldMosaic, rgbBands, ldOut>>

rsVars == <<rsMode, rsHeap, rsArr, rsProf, rsHist>>

drvVars == <<phase, shpLeft, coordLeft, overallPending, nFeat, featIdx, sharedFolder>>

paVars == <<pc, paCause, loc, folder, aoiGeom, catItems, datesDict, dateIdx, processed,
            dirs, doc>>

dateVars == <<tif0, jpg0, tif, jpg, calls, rgb, rgbNormalized, profile>>

twVars == <<runNo, disk, firstItems, runLog>>

vars == <<covVars, ldVars, rsVars, drvVars, paVars, dateVars, twVars>>

NoResult == [kind |-> "none"]

(***************************************************************************)
(* Geometry.  A geometry is a finite union of atomic regions (cells); its  *)
(* area is the sum of the cells' areas.  Cells 0 and 1 have area 0 (points *)
(* or lines: shapely accepts them as an AOI), the others are chosen so that *)
(* coverage ratios fall on both sides of, and exactly on, 99.9 %.          *)
(***************************************************************************)
NCells == 4

Cells == 0..NCells

CellArea(c) ==
    CASE c = 0 -> 0
      [] c = 1 -> 0
      [] c = 2 -> 1
      [] c = 3 -> 998
      [] c = 4 -> 999
      [] OTHER -> 2

RECURSIVE Area(_)
Area(g) ==
    IF g = {} THEN 0
    ELSE LET c == CHOOSE x \in g : TRUE
         IN  CellArea(c) + Area(g \ {c})

SeqToSet(q) == { q[i] : i \in 1..Len(q) }

Intersects(g, h) == g \cap h # {}

Intersection(g, h) == g \cap h

RECURSIVE UnaryUnion(_)
UnaryUnion(gs) ==
    IF gs = <<>> THEN {}
    ELSE Head(gs) \cup UnaryUnion(Tail(gs))

(***************************************************************************)
(* check_coverage.  The percentage intersection.area / aoi.area * 100 is   *)
(* kept as the exact fraction num / den; the code computes it in floating  *)
(* point.  A zero aoi.area makes the division raise ZeroDivisionError.     *)
(***************************************************************************)
FULL_COVERAGE_PERMILLE == 999

CovPercentage(aoi, image) ==
    [num |-> Area(Intersection(image, aoi)) * 100, den |-> Area(aoi)]

\* mutant: the threshold compared strictly (pct > 99.9)
CovIsCovered_Strict(pct) == pct.num * 10 > FULL_COVERAGE_PERMILLE * pct.den

\* pct >= 99.9 on the exact fraction
CovIsCovered(pct) == pct.num * 10 >= FULL_COVERAGE_PERMILLE * pct.den

check_coverage(aoi, image) ==
    IF ~Intersects(image, aoi)
    THEN [kind |-> "ok", pct |-> [num |-> 0, den |-> 1], covered |-> FALSE]
    ELSE IF Area(aoi) = 0
    THEN [kind |-> "raised", error |-> "ZeroDivisionError"]
    ELSE LET pct == CovPercentage(aoi, image)
         IN  [kind |-> "ok", pct |-> pct, covered |-> CovIsCovered(pct)]

(***************************************************************************)
(* Tiles (STAC items).  An item carries its id, its acquisition timestamp  *)
(* <<day, time of day>> and its footprint.                                 *)
(***************************************************************************)
MaxTiles == 3

MaxDay == 2

Days == 1..MaxDay

\* item.properties.get('datetime', '')[:10]: the calendar day of the timestamp
DateOf(item) == item.ts[1]

\* items_by_date[date_str].append(item) on an insertion-ordered dict
RECURSIVE GroupAppend(_, _)
GroupAppend(groups, item) ==
    IF groups = <<>>
    THEN << [date |-> DateOf(item), items |-> <<item>>] >>
    ELSE IF Head(groups).date = DateOf(item)
         THEN << [Head(groups) EXCEPT !.items = Append(@, item)] >> \o Tail(groups)
         ELSE << Head(groups) >> \o GroupAppend(Tail(groups), item)

RECURSIVE GroupByDate(_, _)
GroupByDate(groups, items) ==
    IF items = <<>> THEN groups
    ELSE GroupByDate(GroupAppend(groups, Head(items)), Tail(items))

RECURSIVE InsertByDate(_, _)
InsertByDate(sorted, g) ==
    IF sorted = <<>> THEN <<g>>
    ELSE IF g.date < Head(sorted).date
         THEN <<g>> \o sorted
         ELSE << Head(sorted) >> \o InsertByDate(Tail(sorted), g)

\* mutant: the pairs are taken in the dict's insertion order
SortedItems_Unsorted(groups) == groups

\* sorted(d.items()): the (date, items) pairs of a dict in ascending date order
RECURSIVE SortedItems(_)
SortedItems(groups) ==
    IF groups = <<>> THEN <<>>
    ELSE InsertByDate(SortedItems(Tail(groups)), Head(groups))

Footprints(items) == [i \in 1..Len(items) |-> items[i].fp]

\* mutant: coverage judged on the first tile's footprint, not on the union
RECURSIVE SelectCovered_FirstTile(_, _, _)
SelectCovered_FirstTile(acc, groups, aoi) ==
    IF groups = <<>> THEN [kind |-> "ok", dates |-> acc]
    ELSE LET g   == Head(groups)
             cov == check_coverage(aoi, g.items[1].fp)
         IN  IF cov.kind = "raised" THEN cov
             ELSE SelectCovered_FirstTile(
                      IF cov.covered THEN Append(acc, g) ELSE acc,
                      Tail(groups), aoi)

\* the coverage loop: fully_covered_dates[date] = date_items when is_covered
RECURSIVE SelectCovered(_, _, _)
SelectCovered(acc, groups, aoi) ==
    IF groups = <<>> THEN [kind |-> "ok", dates |-> acc]
    ELSE LET g      == Head(groups)
             merged == UnaryUnion(Footprints(g.items))
             cov    == check_coverage(aoi, merged)
         IN  IF cov.kind = "raised" THEN cov
             ELSE SelectCovered(IF cov.covered THEN Append(acc, g) ELSE acc,
                                Tail(groups), aoi)

\* search_sentinel2_images once the catalog has answered with `items`
search_sentinel2_images(items, aoi) ==
    SelectCovered(<<>>, SortedItems(GroupByDate(<<>>, items)), aoi)

(***************************************************************************)
(* SpecCov: check_coverage and search_sentinel2_images on bounded inputs.  *)
(***************************************************************************)
AoiGeometries == (SUBSET Cells) \ {{}}

CandGeometries == SUBSET Cells

SelAois == {{2, 4}, {3, 4}, {2, 3, 4}, {1}}

SelFootprints == {{3}, {4}, {2, 3}, {1, 2}}

MkItem(i, day, fp) == [id |-> i, ts |-> <<day, i>>, fp |-> fp]

ItemSeqs(fps) ==
    UNION { { [i \in 1..n |-> MkItem(i, f[i][1], f[i][2])] :
                f \in [1..n -> Days \X fps] } : n \in 0..MaxTiles }

TwOff ==
    /\ runNo = 0
    /\ disk = <<>>
    /\ firstItems = <<>>
    /\ runLog = <<>>

RsOff ==
    /\ rsMode = "off"
    /\ rsHeap = <<>>
    /\ rsArr = 0
    /\ rsProf = 0
    /\ rsHist = <<>>

LdOff ==
    /\ ldPc = "off"
    /\ ldItems = <<>>
    /\ ldGrids = <<>>
    /\ ldAoiSmall = FALSE
    /\ memFiles = {}
    /\ ldBand = 1
    /\ ldItem = 1
    /\ ldAttempt = 0
    /\ srcFiles = <<>>
    /\ openHandles = {}
    /\ openLog = <<>>
    /\ cropLog = <<>>
    /\ ldMosaic = [kind |-> "none"]
    /\ rgbBands = <<>>
    /\ ldOut = [kind |-> "none"]

NoDoc == [kind |-> "none"]

NoLoc == [kind |-> "none", n |-> 0, feat |-> 0]

DateOff ==
    /\ tif0 = "none"
    /\ jpg0 = "none"
    /\ tif = "none"
    /\ jpg = "none"
    /\ calls = <<>>
    /\ rgb = [kind |-> "none"]
    /\ rgbNormalized = [kind |-> "none"]
    /\ profile = "none"

PaOff ==
    /\ pc = "idle"
    /\ paCause = "none"
    /\ loc = NoLoc
    /\ folder = NoLoc
    /\ aoiGeom = {}
    /\ catItems = <<>>
    /\ datesDict = <<>>
    /\ dateIdx = 0
    /\ processed = <<>>
    /\ dirs = {}
    /\ doc = NoDoc
    /\ DateOff

DrvOff ==
    /\ phase = "off"
    /\ shpLeft = 0
    /\ coordLeft = 0
    /\ overallPending = FALSE
    /\ nFeat = 0
    /\ featIdx = 0
    /\ sharedFolder = FALSE
    /\ PaOff

CovOff ==
    /\ covMode = "off"
    /\ covAoi = {}
    /\ covCand = {}
    /\ covOut = NoResult
    /\ selItems = <<>>
    /\ selOut = NoResult

CovInit ==
    /\ TwOff
    /\ LdOff
    /\ RsOff
    /\ DrvOff
    /\ covMode \in {"cov", "sel"}
    /\ covOut = NoResult
    /\ selOut = NoResult
    /\ \/ /\ covMode = "cov"
          /\ covAoi \in AoiGeometries
          /\ covCand \in CandGeometries
          /\ selItems = <<>>
       \/ /\ covMode = "sel"
          /\ covAoi \in SelAois
          /\ covCand = {}
          /\ selItems \in ItemSeqs(SelFootprints)

CoverageCall ==
    /\ covMode = "cov"
    /\ covOut = NoResult
    /\ covOut' = check_coverage(covAoi, covCand)
    /\ UNCHANGED <<covMode, covAoi, covCand, selItems, selOut>>
    /\ UNCHANGED <<twVars, rsVars, ldVars, drvVars, paVars, dateVars>>

SearchCall ==
    /\ covMode = "sel"
    /\ selOut = NoResult
    /\ selOut' = search_sentinel2_images(selItems, covAoi)
    /\ UNCHANGED <<covMode, covAoi, covCand, covOut, selItems>>
    /\ UNCHANGED <<twVars, rsVars, ldVars, drvVars, paVars, dateVars>>

CovNext == CoverageCall \/ SearchCall

SpecCov == CovInit /\ [][CovNext]_vars

(***************************************************************************)
(* load_and_crop_bands(items, aoi_geometry, bands_config, max_retries=3).  *)
(* Every rasterio call (open, reproject, merge, mask) may return or raise. *)
(***************************************************************************)
MAX_RETRIES == 3

OPEN_DELAY == 2

CROP_DELAY == 3

MaxLdTiles == 2

MaxCrs == 2

MaxGrid == 2

BandNames == <<"red", "green", "blue">>

\* what the loops did, in order: an outcome of a call, or time.sleep(secs)
Ev(e) == [ev |-> e, secs |-> 0]

Sleep(secs) == [ev |-> "sleep", secs |-> secs]

LdItemSeqs ==
    UNION { { [i \in 1..n |-> [id |-> i, crs |-> f[i]]] : f \in [1..n -> 1..MaxCrs] } :
            n \in 1..MaxLdTiles }

\* a dataset returned by rasterio.open for tile t of the band; gen counts the
\* re-open rounds of the crop retry
SrcHandle(band, t, gen) ==
    [kind |-> "src", band |-> band, tile |-> ldItems[t].id,
     crs |-> ldItems[t].crs, gen |-> gen]

\* mutant: the last tile's CRS is taken as the target
TargetCrs_Last == srcFiles[Len(srcFiles)].crs

\* target_crs = src_files[0].crs
TargetCrs == srcFiles[1].crs

\* the in-memory dataset a tile is reprojected into
MemHandle(band, t) ==
    [kind |-> "mem", band |-> band, tile |-> srcFiles[t].tile,
     crs |-> TargetCrs, gen |-> 0]

\* memfile = MemoryFile(): the in-memory file behind such a dataset
MemFile(band, t) == [kind |-> "memfile", band |-> band, tile |-> srcFiles[t].tile]

EmptyOpenLog == [i \in 1..Len(ldItems) |-> <<>>]

LdInit ==
    /\ TwOff
    /\ CovOff
    /\ RsOff
    /\ DrvOff
    /\ ldItems \in LdItemSeqs
    /\ ldGrids \in [1..Len(BandNames) -> 1..MaxGrid]
    /\ ldAoiSmall \in BOOLEAN
    /\ memFiles = {}
    /\ ldPc = "open"
    /\ ldBand = 1
    /\ ldItem = 1
    /\ ldAttempt = 0
    /\ srcFiles = <<>>
    /\ openHandles = {}
    /\ openLog = [i \in 1..Len(ldItems) |-> <<>>]
    /\ cropLog = <<>>
    /\ ldMosaic = NoResult
    /\ rgbBands = <<>>
    /\ ldOut = NoResult

\* mutant: one retry too many
OpenRetryAllowed_OffByOne(attempt) == attempt < MAX_RETRIES

\* attempt < max_retries - 1 in the open loop
OpenRetryAllowed(attempt) == attempt < MAX_RETRIES - 1

\* mutant: one crop retry too many
CropRetryAllowed_OneMore(attempt) == attempt < MAX_RETRIES

\* mutant: a failed crop is never retried
CropRetryAllowed_Never(attempt) == FALSE

\* attempt < max_retries - 1 in the crop loop
CropRetryAllowed(attempt) == attempt < MAX_RETRIES - 1

\* str(e) of an exception of the raster library: it may or may not quote the
\* URL of the asset of tile t (href = the tile's id, or 0)
ErrTexts(t) == { [href |-> 0], [href |-> ldItems[t].id] }

\* mutant: the message does not say which band failed
LoaderMsg_NoBand(text) == [band |-> "none", attempts |-> MAX_RETRIES, text |-> text]

\* f"Failed to {verb} {band_name} band after {max_retries} attempts: {str(e)}"
LoaderMsg(text) == [band |-> BandNames[ldBand], attempts |-> MAX_RETRIES, text |-> text]

\* an exception of a library call that the loader lets through as it is
LibraryMsg == [band |-> "none", attempts |-> 0, text |-> [href |-> 0]]

LdRaiseMsg(op, msg) ==
    /\ ldPc' = "raised"
    /\ ldOut' = [kind |-> "raised", op |-> op, band |-> BandNames[ldBand], msg |-> msg]

LdRaise(op) == LdRaiseMsg(op, LibraryMsg)

\* one pass of the body of `for attempt in range(max_retries)` for one tile
LdOpen ==
    /\ ldPc = "open"
    /\ \E ok \in BOOLEAN :
          IF ok
          THEN /\ srcFiles' = Append(srcFiles, SrcHandle(ldBand, ldItem, 0))
               /\ openHandles' = openHandles \cup {SrcHandle(ldBand, ldItem, 0)}
               /\ openLog' = [openLog EXCEPT ![ldItem] = Append(@, Ev("ok"))]
               /\ ldAttempt' = 0
               /\ IF ldItem < Len(ldItems)
                  THEN ldItem' = ldItem + 1 /\ ldPc' = "open"
                  ELSE /\ ldItem' = ldItem
                       /\ ldPc' = IF Len(srcFiles') > 1 THEN "merge" ELSE "crop"
               /\ UNCHANGED ldOut
          ELSE IF OpenRetryAllowed(ldAttempt)
          THEN /\ openLog' = [openLog EXCEPT
                                ![ldItem] = @ \o <<Ev("fail"), Sleep(OPEN_DELAY)>>]
               /\ ldAttempt' = ldAttempt + 1
               /\ UNCHANGED <<ldPc, ldItem, srcFiles, openHandles, ldOut>>
          ELSE /\ openLog' = [openLog EXCEPT ![ldItem] = Append(@, Ev("fail"))]
               /\ \E text \in ErrTexts(ldItem) : LdRaiseMsg("open", LoaderMsg(text))
               /\ UNCHANGED <<ldItem, ldAttempt, srcFiles, openHandles>>
    /\ UNCHANGED <<ldItems, ldGrids, ldAoiSmall, memFiles, ldBand, cropLog, ldMosaic,
                   rgbBands>>
    /\ UNCHANGED <<twVars, rsVars, covVars, drvVars, paVars, dateVars>>

Mismatched == { i \in 1..Len(srcFiles) : srcFiles[i].crs # TargetCrs }

\* the mismatched tiles among the first k of src_files
MismatchedUpTo(k) == { i \in Mismatched : i <= k }

\* reprojected_files: an in-memory dataset in the target CRS for each tile
\* whose CRS differs, the tile's own dataset otherwise
ReprojectedFiles ==
    [i \in 1..Len(srcFiles) |->
        IF i \in Mismatched THEN MemHandle(ldBand, i) ELSE srcFiles[i]]

\* what merge() is given: reprojected_files on a CRS mismatch, src_files else
MergeInputs == IF Mismatched # {} THEN ReprojectedFiles ELSE srcFiles

\* mutant: the in-memory datasets are left open
MemToClose_None(rfs) == {}

\* for rf in reprojected_files: if rf not in src_files: rf.close()
MemToClose(rfs) == { h \in SeqToSet(rfs) : h \notin SeqToSet(srcFiles) }

\* len(src_files) > 1: reproject the tiles whose CRS differs, then merge
LdMerge ==
    /\ ldPc = "merge"
    /\ \/ /\ ldMosaic' = [kind |-> "mosaic", crs |-> TargetCrs,
                          reprojected |-> Mismatched,
                          direct |-> (1..Len(srcFiles)) \ Mismatched,
                          inputs |-> MergeInputs]
          /\ openHandles' = (openHandles \cup SeqToSet(MergeInputs))
                              \ MemToClose(MergeInputs)
          /\ memFiles' = memFiles \cup { MemFile(ldBand, i) : i \in Mismatched }
          /\ ldPc' = "crop"
          /\ UNCHANGED ldOut
       \/ \E k \in 0..Len(srcFiles) :
             \* calculate_default_transform, memfile.open or reproject raises
             \* at tile k + 1, or merge raises (k = len(src_files)): the
             \* in-memory datasets made so far stay open
             /\ openHandles' = openHandles \cup
                                 { MemHandle(ldBand, i) : i \in MismatchedUpTo(k) }
             /\ memFiles' = memFiles \cup { MemFile(ldBand, i) : i \in MismatchedUpTo(k) }
             /\ LdRaise("merge")
             /\ UNCHANGED ldMosaic
    /\ UNCHANGED <<ldItems, ldGrids, ldAoiSmall, ldBand, ldItem, ldAttempt, srcFiles,
                   openLog, cropLog, rgbBands>>
    /\ UNCHANGED <<twVars, rsVars, covVars, drvVars, paVars, dateVars>>

\* mask(...) on the mosaic (several tiles) or on src_files[0] (one tile)
LdCrop ==
    /\ ldPc = "crop"
    /\ \E ok \in BOOLEAN, reopened \in BOOLEAN :
          IF ok
          THEN /\ cropLog' = Append(cropLog, Ev("crop_ok"))
               /\ ldPc' = "finish"
               /\ UNCHANGED <<ldAttempt, srcFiles, openHandles, ldOut>>
          ELSE IF Len(srcFiles) > 1
          THEN /\ cropLog' = Append(cropLog, Ev("crop_fail"))
               /\ LdRaise("crop")
               /\ UNCHANGED <<ldAttempt, srcFiles, openHandles>>
          ELSE IF CropRetryAllowed(ldAttempt)
          THEN IF reopened
               THEN /\ cropLog' = cropLog \o
                                    <<Ev("crop_fail"), Sleep(CROP_DELAY), Ev("close"),
                                      Ev("reopen_ok")>>
                    /\ srcFiles' = << SrcHandle(ldBand, 1, ldAttempt + 1) >>
                    /\ openHandles' = (openHandles \ SeqToSet(srcFiles))
                                        \cup {SrcHandle(ldBand, 1, ldAttempt + 1)}
                    /\ ldAttempt' = ldAttempt + 1
                    /\ UNCHANGED <<ldPc, ldOut>>
               ELSE /\ cropLog' = cropLog \o
                                    <<Ev("crop_fail"), Sleep(CROP_DELAY), Ev("close"),
                                      Ev("reopen_fail")>>
                    /\ srcFiles' = <<>>
                    /\ openHandles' = openHandles \ SeqToSet(srcFiles)
                    /\ LdRaise("reopen")
                    /\ UNCHANGED ldAttempt
          ELSE /\ cropLog' = Append(cropLog, Ev("crop_fail"))
               /\ LdRaiseMsg("crop", LoaderMsg([href |-> 0]))
               /\ UNCHANGED <<ldAttempt, srcFiles, openHandles>>
    /\ UNCHANGED <<ldItems, ldGrids, ldAoiSmall, memFiles, ldBand, ldItem, openLog,
                   ldMosaic, rgbBands>>
    /\ UNCHANGED <<twVars, rsVars, covVars, drvVars, paVars, dateVars>>

\* the number of pixels of a crop: one pixel on every grid for an AOI within
\* one pixel, a number that depends on the grid's pixel size otherwise
CropShape(grid) == IF ldAoiSmall THEN 1 ELSE grid

\* cropped, out_transform of mask(..., crop=True): the window of the band's
\* grid, in the target CRS, around the AOI
Cropped ==
    [band |-> BandNames[ldBand], crs |-> TargetCrs,
     transform |-> <<TargetCrs, ldGrids[ldBand]>>,
     shape |-> CropShape(ldGrids[ldBand])]

\* mutant: arrays of any shapes are stacked
StackOk_Always(bands) == TRUE

\* np.stack raises ValueError unless all arrays have the same shape
StackOk(bands) == \A i, j \in 1..Len(bands) : bands[i].shape = bands[j].shape

\* profile = src_files[0].profile.copy(); close all; rgb_bands.append; then
\* the next band, or np.stack, profile.update and the return
LdFinishBand ==
    /\ ldPc = "finish"
    /\ openHandles' = openHandles \ SeqToSet(srcFiles)
    /\ rgbBands' = Append(rgbBands, Cropped)
    /\ IF ldBand < Len(BandNames)
       THEN /\ ldBand' = ldBand + 1
            /\ ldPc' = "open"
            /\ ldItem' = 1
            /\ ldAttempt' = 0
            /\ srcFiles' = <<>>
            /\ openLog' = EmptyOpenLog
            /\ cropLog' = <<>>
            /\ ldMosaic' = NoResult
            /\ UNCHANGED ldOut
       ELSE /\ IF StackOk(rgbBands')
               THEN /\ ldPc' = "returned"
                    /\ ldOut' = [kind |-> "ok", count |-> Len(rgbBands'),
                                 order |-> [i \in 1..Len(rgbBands') |-> rgbBands'[i].band],
                                 shape |-> rgbBands'[1].shape,
                                 crs |-> TargetCrs,
                                 transform |-> Cropped.transform]
               ELSE LdRaise("stack")
            /\ UNCHANGED <<ldBand, ldItem, ldAttempt, srcFiles, openLog, cropLog,
                           ldMosaic>>
    /\ UNCHANGED <<ldItems, ldGrids, ldAoiSmall, memFiles>>
    /\ UNCHANGED <<twVars, rsVars, covVars, drvVars, paVars, dateVars>>

LdNext == LdOpen \/ LdMerge \/ LdCrop \/ LdFinishBand

SpecLoad == LdInit /\ [][LdNext]_vars

(***************************************************************************)
(* resample_to_resolution and normalize_for_display                        *)
(* (src/src/image_processor.py).  Lengths are in millimetres, so that the  *)
(* 0.01 m tolerance is a whole number.  Arrays and profile dicts are       *)
(* objects of a heap: a function that returns its argument returns the     *)
(* same identity, one that builds a new array or dict returns a new one.   *)
(***************************************************************************)
RESOLUTION_TOLERANCE == 10

GAIN_PERCENT == 250

REFLECTANCE_SCALE == 10000

MaxDim == 3

MaxSteps == 2

MaxPix == 2

\* heights and widths of the rasters tried
DimValues == (1..MaxDim) \cup {1000}

\* pixel sizes of the rasters tried: 5 m, 10 m less 9 mm, 10 m, 10 m plus
\* 11 mm, 20 m
PixelSizes == {5000, 9991, 10000, 10011, 20000}

\* config['output']['target_resolution']
TargetResolutions == {5000, 10000, 20000}

\* raw samples: Sentinel-2 L2A digital numbers (uint16)
SampleValues == {0, 1000, 2000, 3999, 4000, 10000}

Abs(x) == IF x < 0 THEN -x ELSE x

\* a north-up affine transform (a, b, c, d, e, f) of pixel size px
NorthUp(px) == [a |-> px, b |-> 1, c |-> 300, d |-> 2, e |-> -px, f |-> 400]

RsProfiles ==
    { [height |-> h, width |-> w, count |-> 3, dtype |-> "uint16", crs |-> 1,
       transform |-> NorthUp(px)] :
          h \in DimValues, w \in DimValues, px \in PixelSizes }

\* the array that goes with a profile; its samples are left open
ArrayOf(prof) ==
    [height |-> prof.height, width |-> prof.width, bands |-> 3,
     dtype |-> prof.dtype, data |-> <<>>]

\* a one-row array of n pixels, the three bands of a pixel holding one value
SampleArrays ==
    UNION { { [height |-> 1, width |-> n, bands |-> 3, dtype |-> "uint16",
               data |-> d] : d \in [1..n -> SampleValues] } : n \in 1..MaxPix }

RasterInit ==
    /\ TwOff
    /\ CovOff
    /\ LdOff
    /\ DrvOff
    /\ rsHist = <<>>
    /\ rsArr = 1
    /\ rsProf = 2
    /\ \/ /\ rsMode = "resample"
          /\ \E prof \in RsProfiles : rsHeap = << ArrayOf(prof), prof >>
       \/ /\ rsMode = "normalize"
          /\ \E arr \in SampleArrays :
                rsHeap = << arr, [height |-> arr.height, width |-> arr.width,
                                  count |-> 3, dtype |-> arr.dtype, crs |-> 1,
                                  transform |-> NorthUp(10000)] >>

\* current_resolution = profile['transform'][0]
CurrentResolution(prof) == prof.transform.a

\* mutant: only an exactly equal pixel size skips the resampling
SkipResample_Exact(prof, target) == CurrentResolution(prof) = target

\* abs(current_resolution - target_resolution) < 0.01
SkipResample(prof, target) ==
    Abs(CurrentResolution(prof) - target) < RESOLUTION_TOLERANCE

\* mutant: the new dimension is rounded to the nearest integer
NewDim_Round(old, current, target) == (2 * old * current + target) \div (2 * target)

\* int(profile['height'] * scale_factor), scale_factor = current / target
NewDim(old, current, target) == (old * current) \div target

\* mutant: the vertical pixel size keeps its old value
NewTransform_KeepE(t, target) == [t EXCEPT !.a = target]

\* rasterio.Affine(target, t.b, t.c, t.d, -target, t.f)
NewTransform(t, target) ==
    [a |-> target, b |-> t.b, c |-> t.c, d |-> t.d, e |-> -target, f |-> t.f]

\* np.zeros((new_height, new_width, 3), dtype=rgb_array.dtype), then filled
\* by reproject
ResampledArray(arr, prof, target) ==
    [height |-> NewDim(prof.height, CurrentResolution(prof), target),
     width |-> NewDim(prof.width, CurrentResolution(prof), target),
     bands |-> 3, dtype |-> arr.dtype, data |-> <<>>]

\* updated_profile = profile.copy(); updated_profile.update({...})
UpdatedProfile(prof, target) ==
    [prof EXCEPT !.height = NewDim(prof.height, CurrentResolution(prof), target),
                 !.width = NewDim(prof.width, CurrentResolution(prof), target),
                 !.transform = NewTransform(prof.transform, target)]

RsEntry(op, target, res, outArr, outProf, reprojected) ==
    [op |-> op, target |-> target, res |-> res,
     inArr |-> rsArr, inProf |-> rsProf,
     inArrValue |-> rsHeap[rsArr], inProfValue |-> rsHeap[rsProf],
     outArr |-> outArr, outProf |-> outProf, reprojected |-> reprojected]

\* one call rgb_array, profile = resample_to_resolution(rgb_array, profile, t)
RsResample ==
    /\ rsMode = "resample"
    /\ Len(rsHist) < MaxSteps
    /\ \E target \in TargetResolutions :
          IF SkipResample(rsHeap[rsProf], target)
          THEN /\ rsHist' = Append(rsHist,
                                   RsEntry("resample", target, "ok", rsArr, rsProf, FALSE))
               /\ UNCHANGED <<rsMode, rsHeap, rsArr, rsProf>>
          ELSE \/ /\ rsHeap' = rsHeap \o
                                 << ResampledArray(rsHeap[rsArr], rsHeap[rsProf], target),
                                    UpdatedProfile(rsHeap[rsProf], target) >>
                  /\ rsArr' = Len(rsHeap) + 1
                  /\ rsProf' = Len(rsHeap) + 2
                  /\ rsHist' = Append(rsHist,
                                      RsEntry("resample", target, "ok",
                                              Len(rsHeap) + 1, Len(rsHeap) + 2, TRUE))
                  /\ UNCHANGED rsMode
               \/ \* np.zeros or reproject raises
                  /\ rsHeap' = Append(rsHeap,
                                      ResampledArray(rsHeap[rsArr], rsHeap[rsProf], target))
                  /\ rsHist' = Append(rsHist,
                                      RsEntry("resample", target, "raised", 0, 0, TRUE))
                  /\ rsMode' = "stopped"
                  /\ UNCHANGED <<rsArr, rsProf>>
    /\ UNCHANGED <<twVars, covVars, ldVars, drvVars, paVars, dateVars>>

\* mutant: the scaled value is rounded to the nearest integer
NormalizeValue_Rounded(v) ==
    LET scaled == v * GAIN_PERCENT
        unit == REFLECTANCE_SCALE * 100
        clipped == IF scaled < 0 THEN 0 ELSE IF scaled > unit THEN unit ELSE scaled
    IN  (2 * clipped * 255 + unit) \div (2 * unit)

\* (np.clip(band / 10000.0 * gain, 0, 1) * 255).astype(np.uint8): the
\* conversion to uint8 drops the fraction
NormalizeValue(v) ==
    LET scaled == v * GAIN_PERCENT            \* reflectance * gain, in 1/1000000
        unit == REFLECTANCE_SCALE * 100
        clipped == IF scaled < 0 THEN 0 ELSE IF scaled > unit THEN unit ELSE scaled
    IN  (clipped * 255) \div unit

\* rgb_normalized = np.zeros_like(rgb_array, dtype=np.uint8), filled per band
NormalizedArray(arr) ==
    [height |-> arr.height, width |-> arr.width, bands |-> arr.bands,
     dtype |-> "uint8",
     data |-> [i \in DOMAIN arr.data |-> NormalizeValue(arr.data[i])]]

\* one call rgb_normalized = normalize_for_display(rgb_array)
RsNormalize ==
    /\ rsMode = "normalize"
    /\ rsHist = <<>>
    /\ rsHeap' = Append(rsHeap, NormalizedArray(rsHeap[rsArr]))
    /\ rsHist' = << RsEntry("normalize", 0, "ok", Len(rsHeap) + 1, rsProf, FALSE) >>
    /\ UNCHANGED <<rsMode, rsArr, rsProf>>
    /\ UNCHANGED <<twVars, covVars, ldVars, drvVars, paVars, dateVars>>

RasterNext == RsResample \/ RsNormalize

SpecRaster == RasterInit /\ [][RasterNext]_vars


(***************************************************************************)
(* process_aoi (src/main.py:39-224).  The files of one date are touched    *)
(* only while that date is processed, so their state is kept for the       *)
(* current date: "none", "old" (there before the run), "new" (written by   *)
(* this run) or "partial" (an export that raised after creating the file). *)
(***************************************************************************)
DrvMaxTiles == 2

DrvAois == {{3, 4}, {0, 1}}

DrvFootprints == {{3}, {1, 3, 4}}

DrvItemSeqs ==
    UNION { { [i \in 1..n |-> MkItem(i, f[i][1], f[i][2])] :
                f \in [1..n -> Days \X DrvFootprints] } : n \in 0..DrvMaxTiles }

\* the sample values of a raster returned by the loader
RasterSamples == {{0}, {0, 1000}}

NoRaster == [kind |-> "none"]

Call(op, res, arg) == [op |-> op, res |-> res, arg |-> arg]

Exists(f) == f # "none"

\* mutant: one existing output is enough to skip the date
FilesExist_Either(t, j) == Exists(t) \/ Exists(j)

\* mutant: existing outputs are not noticed
FilesExist_Never(t, j) == FALSE

\* files_exist = os.path.exists(tif_path) and os.path.exists(jpg_path)
FilesExist(t, j) == Exists(t) /\ Exists(j)

SetMax(S) == CHOOSE x \in S : \A y \in S : y <= x

\* mutant: the all-zero check never fires
IsAllZero_Never(raster) == FALSE

\* rgb_array.max() == 0
IsAllZero(raster) == SetMax(raster.samples) = 0

\* mutant: the empty result is not noticed
NoDates_Never(d) == FALSE

\* len(dates_dict) == 0
NoDates(d) == Len(d) = 0

\* the loop of line 71 goes through sorted(dates_dict.items())
SortedDates == SortedItems(datesDict)

ResetDate ==
    /\ tif0' = "none"
    /\ jpg0' = "none"
    /\ tif' = "none"
    /\ jpg' = "none"
    /\ calls' = <<>>
    /\ rgb' = NoRaster
    /\ rgbNormalized' = NoRaster
    /\ profile' = "none"

\* the call process_aoi(location_name, aoi_geometry, ..., output_folder)
EnterProcessAoi(l, f, a) ==
    /\ pc' = "search"
    /\ paCause' = "none"
    /\ loc' = l
    /\ folder' = f
    /\ aoiGeom' = a
    /\ catItems' = <<>>
    /\ datesDict' = <<>>
    /\ dateIdx' = 0
    /\ processed' = <<>>
    /\ dirs' = {}
    /\ doc' = IF f = folder THEN doc ELSE NoDoc
    /\ ResetDate

PaRaise(cause) ==
    /\ pc' = "exc"
    /\ paCause' = cause

\* lines 55-65: the catalog search, the selection, the empty-result return
PaSearch ==
    /\ pc = "search"
    /\ \/ /\ PaRaise("catalog")
          /\ UNCHANGED <<catItems, datesDict, dateIdx>>
       \/ \E items \in DrvItemSeqs :
             LET r == search_sentinel2_images(items, aoiGeom)
             IN  /\ catItems' = items
                 /\ IF r.kind = "raised"
                    THEN /\ PaRaise("coverage")
                         /\ UNCHANGED <<datesDict, dateIdx>>
                    ELSE /\ datesDict' = r.dates
                         /\ paCause' = paCause
                         /\ IF NoDates(r.dates)
                            THEN pc' = "ret" /\ dateIdx' = dateIdx
                            ELSE pc' = "date" /\ dateIdx' = 1
    /\ UNCHANGED <<loc, folder, aoiGeom, processed, dirs, doc>>
    /\ UNCHANGED <<twVars, rsVars, covVars, ldVars, drvVars, dateVars>>

\* lines 71-109: the head of one iteration, up to `if files_exist`.  Neither
\* os.makedirs call is inside a try block.
PaDateStart ==
    /\ pc = "date"
    /\ processed' = Append(processed, SortedDates[dateIdx].date)
    /\ \E t0 \in {"none", "old"}, j0 \in {"none", "old"},
          mk \in {"ok", "tif_raises", "jpg_raises"} :
          /\ mk = "tif_raises" => t0 = "none"
          /\ mk = "jpg_raises" => j0 = "none"
          /\ tif0' = t0 /\ tif' = t0
          /\ jpg0' = j0 /\ jpg' = j0
          /\ IF mk = "ok"
             THEN /\ dirs' = dirs \cup {"tif", "jpg"}
                  /\ calls' = << Call("makedirs", "ok", "-") >>
                  /\ pc' = IF FilesExist(t0, j0) THEN "skip_read" ELSE "load"
                  /\ UNCHANGED paCause
             ELSE /\ dirs' = IF mk = "jpg_raises" THEN dirs \cup {"tif"} ELSE dirs
                  /\ calls' = << Call("makedirs", "raised", "-") >>
                  /\ PaRaise("makedirs")
    /\ rgb' = NoRaster
    /\ rgbNormalized' = NoRaster
    /\ profile' = "none"
    /\ UNCHANGED <<loc, folder, aoiGeom, catItems, datesDict, dateIdx, doc>>
    /\ UNCHANGED <<twVars, rsVars, covVars, ldVars, drvVars>>

\* mutant: the display normalization comes before the GeoTIFF export
AfterOk_NormalizeFirst(op) ==
    CASE op = "resample" -> "normalize"
      [] op = "normalize" -> "export_jpg"
      [] op = "export_geotiff" -> "normalize"
      [] op = "export_jpeg" -> "meta"
      [] OTHER -> "date_end"

\* mutant: the JPEG is exported before the GeoTIFF
AfterOk_JpegFirst(op) ==
    CASE op = "resample" -> "normalize"
      [] op = "normalize" -> "export_jpg"
      [] op = "export_jpeg" -> "export_tif"
      [] op = "export_geotiff" -> "meta"
      [] OTHER -> "date_end"

\* the statement that follows a call of the main try block that returned
AfterOk(op) ==
    CASE op = "resample" -> "export_tif"
      [] op = "export_geotiff" -> "normalize"
      [] op = "normalize" -> "export_jpg"
      [] op = "export_jpeg" -> "meta"
      [] OTHER -> "date_end"

\* a call made for the current date, recorded with its outcome
DateCall(op, res, arg, next) ==
    /\ calls' = Append(calls, Call(op, res, arg))
    /\ pc' = next
    /\ UNCHANGED <<paCause, loc, folder, aoiGeom, catItems, datesDict, dateIdx,
                   processed, dirs>>
    /\ UNCHANGED <<twVars, rsVars, covVars, drvVars, tif0, jpg0>>

DateStep(op, res, arg, next) ==
    /\ DateCall(op, res, arg, next)
    /\ UNCHANGED ldVars

\* lines 114-124: the profile of the existing GeoTIFF; an exception is caught
\* at line 135
PaSkipRead ==
    /\ pc = "skip_read"
    /\ \/ /\ DateStep("open_tif", "ok", "-", "skip_meta")
          /\ profile' = "existing_tif"
       \/ /\ DateStep("open_tif", "raised", "-", "date_end")
          /\ UNCHANGED profile
    /\ UNCHANGED <<tif, jpg, rgb, rgbNormalized, doc>>

\* mutant: a document that is already there is kept
WrittenDoc_KeepFirst ==
    IF doc.kind = "doc" THEN doc
    ELSE [kind |-> "doc", loc |-> loc, date |-> SortedDates[dateIdx].date,
          tiles |-> [i \in 1..Len(SortedDates[dateIdx].items) |->
                        SortedDates[dateIdx].items[i].id],
          profile |-> profile]

WrittenDoc == [kind |-> "doc", loc |-> loc, date |-> SortedDates[dateIdx].date,
               tiles |-> [i \in 1..Len(SortedDates[dateIdx].items) |->
                             SortedDates[dateIdx].items[i].id],
               profile |-> profile]

\* write_metadata_doc: doc.txt of the folder is opened with 'w' and rewritten
WriteMetadataDoc(next) ==
    \/ /\ DateStep("write_metadata_doc", "ok", profile, next)
       /\ doc' = WrittenDoc
    \/ /\ DateStep("write_metadata_doc", "raised", profile, next)
       /\ doc' \in {doc, [kind |-> "partial"]}

\* lines 126-138
PaSkipMeta ==
    /\ pc = "skip_meta"
    /\ WriteMetadataDoc("date_end")
    /\ UNCHANGED <<tif, jpg, rgb, rgbNormalized, profile>>

\* lines 143-158: load_and_crop_bands, then the all-zero check
PaLoad ==
    /\ pc = "load"
    /\ \/ \E smp \in RasterSamples :
             /\ rgb' = [kind |-> "raster", samples |-> smp, stage |-> "cropped"]
             /\ profile' = "loaded"
             /\ DateStep("load", "ok", "-",
                         IF IsAllZero(rgb') THEN "date_end" ELSE "resample")
       \/ /\ DateStep("load", "raised", "-", "date_end")
          /\ UNCHANGED <<rgb, profile>>
    /\ UNCHANGED <<tif, jpg, rgbNormalized, doc>>

\* lines 162-178
PaResample ==
    /\ pc = "resample"
    /\ \/ /\ DateStep("resample", "ok", "-", AfterOk("resample"))
          /\ rgb' = [rgb EXCEPT !.stage = "resampled"]
          /\ profile' = "resampled"
       \/ /\ DateStep("resample", "raised", "-", "date_end")
          /\ UNCHANGED <<rgb, profile>>
    /\ UNCHANGED <<tif, jpg, rgbNormalized, doc>>

\* line 182
PaExportTif ==
    /\ pc = "export_tif"
    /\ \/ /\ DateStep("export_geotiff", "ok", rgb.stage, AfterOk("export_geotiff"))
          /\ tif' = "new"
       \/ /\ DateStep("export_geotiff", "raised", rgb.stage, "date_end")
          /\ tif' \in {tif, "partial"}
    /\ UNCHANGED <<jpg, rgb, rgbNormalized, profile, doc>>

\* what normalize_for_display returns for a raster
Normalized(raster) ==
    [kind |-> "raster", samples |-> { NormalizeValue(v) : v \in raster.samples },
     stage |-> "normalized", of |-> raster.stage]

\* line 186: rgb_normalized is a new array
PaNormalize ==
    /\ pc = "normalize"
    /\ \/ /\ DateStep("normalize", "ok", rgb.stage, AfterOk("normalize"))
          /\ rgbNormalized' = Normalized(rgb)
       \/ /\ DateStep("normalize", "raised", rgb.stage, "date_end")
          /\ UNCHANGED rgbNormalized
    /\ UNCHANGED <<tif, jpg, rgb, profile, doc>>

\* lines 193-197
PaExportJpg ==
    /\ pc = "export_jpg"
    /\ \/ /\ DateStep("export_jpeg", "ok", rgbNormalized.stage, AfterOk("export_jpeg"))
          /\ jpg' = "new"
       \/ /\ DateStep("export_jpeg", "raised", rgbNormalized.stage, "date_end")
          /\ jpg' \in {jpg, "partial"}
    /\ UNCHANGED <<tif, rgb, rgbNormalized, profile, doc>>

\* lines 199-224
PaMeta ==
    /\ pc = "meta"
    /\ WriteMetadataDoc("date_end")
    /\ UNCHANGED <<tif, jpg, rgb, rgbNormalized, profile>>

\* `continue` or the end of the loop body: the next date, or the return
NextDate ==
    /\ pc = "date_end"
    /\ IF dateIdx < Len(SortedDates)
       THEN dateIdx' = dateIdx + 1 /\ pc' = "date"
       ELSE dateIdx' = dateIdx /\ pc' = "ret"
    /\ UNCHANGED <<paCause, loc, folder, aoiGeom, catItems, datesDict, processed,
                   dirs, doc>>
    /\ UNCHANGED <<rsVars, covVars, ldVars, drvVars, dateVars>>

PaNextDate ==
    /\ NextDate
    /\ UNCHANGED twVars

(***************************************************************************)
(* The driver script (src/main.py:227-521).                                *)
(***************************************************************************)
MaxShp == 1

MaxCoord == 2

MaxFeat == 2

Loc(kind, n, feat) == [kind |-> kind, n |-> n, feat |-> feat]

DrvInit ==
    /\ TwOff
    /\ CovOff
    /\ LdOff
    /\ RsOff
    /\ phase = "shp"
    /\ shpLeft \in 0..MaxShp
    /\ coordLeft \in 0..MaxCoord
    /\ overallPending \in BOOLEAN
    /\ overallPending => coordLeft > 1
    /\ nFeat = 0
    /\ featIdx = 0
    /\ sharedFolder = FALSE
    /\ PaOff

DrvKeep == UNCHANGED <<twVars, rsVars, covVars, ldVars>>

PaKeep ==
    UNCHANGED <<pc, paCause, loc, folder, aoiGeom, catItems, datesDict, dateIdx,
                processed, dirs, doc, dateVars>>

\* lines 234-270: load_aoi, then one process_aoi for the unified AOI, or the
\* start of the per-feature loop.  Nothing here is inside a try block.
DrvShapefile ==
    /\ phase = "shp" /\ pc = "idle" /\ shpLeft > 0 /\ featIdx = 0
    /\ \/ /\ phase' = "crashed"
          /\ PaKeep
          /\ UNCHANGED <<nFeat, featIdx, sharedFolder>>
       \/ \E a \in DrvAois :
             /\ EnterProcessAoi(Loc("shp", shpLeft, 0), Loc("shp", shpLeft, 0), a)
             /\ UNCHANGED <<phase, nFeat, featIdx, sharedFolder>>
       \/ \E n \in 2..MaxFeat, sh \in BOOLEAN :
             /\ nFeat' = n
             /\ featIdx' = 1
             /\ sharedFolder' = sh
             /\ PaKeep
             /\ UNCHANGED phase
    /\ UNCHANGED <<shpLeft, coordLeft, overallPending>>
    /\ DrvKeep

\* lines 291-347: one feature; the buffer projection may raise
DrvFeature ==
    /\ phase = "shp" /\ pc = "idle" /\ featIdx > 0
    /\ \/ /\ phase' = "crashed"
          /\ PaKeep
       \/ \E a \in DrvAois :
             /\ EnterProcessAoi(Loc("shp", shpLeft, featIdx),
                                IF sharedFolder THEN Loc("shp", shpLeft, 0)
                                ELSE Loc("shp", shpLeft, featIdx),
                                a)
             /\ UNCHANGED phase
    /\ UNCHANGED <<shpLeft, coordLeft, overallPending, nFeat, featIdx, sharedFolder>>
    /\ DrvKeep

\* the shapefile loop is over
DrvShpDone ==
    /\ phase = "shp" /\ pc = "idle" /\ shpLeft = 0
    /\ phase' = "coord"
    /\ PaKeep
    /\ UNCHANGED <<shpLeft, coordLeft, overallPending, nFeat, featIdx, sharedFolder>>
    /\ DrvKeep

\* lines 379-419: create_square_aoi_from_coordinates and process_aoi inside
\* try/except
DrvCoordinate ==
    /\ phase = "coord" /\ pc = "idle" /\ coordLeft > 0
    /\ \/ /\ coordLeft' = coordLeft - 1
          /\ PaKeep
       \/ \E a \in DrvAois :
             /\ EnterProcessAoi(Loc("coord", coordLeft, 0), Loc("coord", coordLeft, 0), a)
             /\ UNCHANGED coordLeft
    /\ UNCHANGED <<phase, shpLeft, overallPending, nFeat, featIdx, sharedFolder>>
    /\ DrvKeep

DrvCoordDone ==
    /\ phase = "coord" /\ pc = "idle" /\ coordLeft = 0
    /\ phase' = "overall"
    /\ PaKeep
    /\ UNCHANGED <<shpLeft, coordLeft, overallPending, nFeat, featIdx, sharedFolder>>
    /\ DrvKeep

\* lines 430-509: the overall bounding AOI inside try/except, or its skip
DrvOverall ==
    /\ phase = "overall" /\ pc = "idle"
    /\ \/ /\ ~overallPending
          /\ phase' = "summary"
          /\ PaKeep
          /\ UNCHANGED overallPending
       \/ /\ overallPending
          /\ overallPending' = FALSE
          /\ phase' = "summary"
          /\ PaKeep
       \/ /\ overallPending
          /\ \E a \in DrvAois :
                EnterProcessAoi(Loc("overall", 0, 0), Loc("overall", 0, 0), a)
          /\ UNCHANGED <<phase, overallPending>>
    /\ UNCHANGED <<shpLeft, coordLeft, nFeat, featIdx, sharedFolder>>
    /\ DrvKeep

\* process_aoi has returned or raised: what its caller does next
DrvAfterCall ==
    /\ pc \in {"ret", "exc"}
    /\ pc' = "idle"
    /\ ResetDate
    /\ paCause' = "none"
    /\ loc' = NoLoc
    /\ aoiGeom' = {}
    /\ catItems' = <<>>
    /\ datesDict' = <<>>
    /\ dateIdx' = 0
    /\ processed' = <<>>
    /\ dirs' = {}
    \* doc.txt of the folder matters to a later call only when further
    \* features of the same shapefile may write into the same folder
    /\ IF phase = "shp" /\ pc = "ret" /\ featIdx > 0 /\ featIdx < nFeat
       THEN UNCHANGED <<folder, doc>>
       ELSE folder' = NoLoc /\ doc' = NoDoc
    /\ \/ /\ phase = "shp" /\ pc = "exc"
          /\ phase' = "crashed"
          /\ UNCHANGED <<shpLeft, coordLeft, overallPending, nFeat, featIdx>>
       \/ /\ phase = "shp" /\ pc = "ret"
          /\ IF featIdx > 0 /\ featIdx < nFeat
             THEN featIdx' = featIdx + 1 /\ UNCHANGED <<shpLeft, nFeat>>
             ELSE featIdx' = 0 /\ nFeat' = 0 /\ shpLeft' = shpLeft - 1
          /\ UNCHANGED <<phase, coordLeft, overallPending>>
       \/ /\ phase = "coord"
          /\ coordLeft' = coordLeft - 1
          /\ UNCHANGED <<phase, shpLeft, overallPending, nFeat, featIdx>>
       \/ /\ phase = "overall"
          /\ overallPending' = FALSE
          /\ phase' = "summary"
          /\ UNCHANGED <<shpLeft, coordLeft, nFeat, featIdx>>
    /\ UNCHANGED sharedFolder
    /\ DrvKeep

\* lines 512-521: the final summary
DrvSummary ==
    /\ phase = "summary"
    /\ phase' = "done"
    /\ PaKeep
    /\ UNCHANGED <<shpLeft, coordLeft, overallPending, nFeat, featIdx, sharedFolder>>
    /\ DrvKeep

Init == DrvInit

\* the state at the call of process_aoi for one coordinate AOI
AoiStart ==
    /\ CovOff
    /\ LdOff
    /\ RsOff
    /\ phase = "call"
    /\ shpLeft = 0
    /\ coordLeft = 0
    /\ overallPending = FALSE
    /\ nFeat = 0
    /\ featIdx = 0
    /\ sharedFolder = FALSE
    /\ pc = "search"
    /\ paCause = "none"
    /\ loc = Loc("coord", 1, 0)
    /\ folder = Loc("coord", 1, 0)
    /\ aoiGeom \in DrvAois
    /\ catItems = <<>>
    /\ datesDict = <<>>
    /\ dateIdx = 0
    /\ processed = <<>>
    /\ dirs = {}
    /\ doc = NoDoc
    /\ DateOff

\* one call of process_aoi on its own: SpecAoi
AoiInit ==
    /\ AoiStart
    /\ TwOff

AoiNext ==
    \/ PaSearch \/ PaDateStart \/ PaSkipRead \/ PaSkipMeta \/ PaLoad \/ PaResample
    \/ PaExportTif \/ PaNormalize \/ PaExportJpg \/ PaMeta \/ PaNextDate

SpecAoi == AoiInit /\ [][AoiNext]_vars

Next ==
    \/ DrvShapefile \/ DrvFeature \/ DrvShpDone \/ DrvCoordinate \/ DrvCoordDone
    \/ DrvOverall \/ DrvAfterCall \/ DrvSummary
    \/ PaSearch \/ PaDateStart \/ PaSkipRead \/ PaSkipMeta \/ PaLoad \/ PaResample
    \/ PaExportTif \/ PaNormalize \/ PaExportJpg \/ PaMeta \/ PaNextDate

Spec == Init /\ [][Next]_vars

(***************************************************************************)
(* Claims on the coverage evaluator and on date selection (SpecCov).       *)
(***************************************************************************)
CovCalled == covMode = "cov" /\ covOut # NoResult

\* what C8 states of a returned result
CovContract(aoi, image, out) ==
    /\ out.kind = "ok"
    /\ ~Intersects(image, aoi) => (out.pct.num = 0 /\ ~out.covered)
    /\ Intersects(image, aoi) =>
          /\ out.pct.num * Area(aoi) = Area(aoi \cap image) * 100 * out.pct.den
          /\ out.pct.den > 0
          /\ 0 <= out.pct.num /\ out.pct.num <= 100 * out.pct.den
          /\ out.covered <=> (out.pct.num * 10 >= 999 * out.pct.den)
    /\ image = aoi => (out.pct.num = 100 * out.pct.den /\ out.covered)

\* C8 (as stated): for ALL AOI geometries A and candidates F, coverage(A, F)
\* returns (0.0, false) when F does not intersect A, else the percentage
\* area(A n F) / area(A) * 100 in [0, 100] with fully_covered iff >= 99.9,
\* and coverage(A, A) = (100.0, true).
C8_Original == CovCalled => CovContract(covAoi, covCand, covOut)

\* C8 (amended): the same for every AOI of positive area; for an AOI of zero
\* area coverage returns (0.0, false) when F does not intersect A and raises
\* a division error when it does.
C8_CoveragePositiveArea ==
    CovCalled =>
        /\ Area(covAoi) > 0 => CovContract(covAoi, covCand, covOut)
        /\ Area(covAoi) = 0 =>
              IF Intersects(covCand, covAoi)
              THEN covOut.kind = "raised"
              ELSE covOut.kind = "ok" /\ covOut.pct.num = 0 /\ ~covOut.covered

\* a candidate that covers exactly 99.9 % of the AOI and counts as full cover
C8_Witness ==
    /\ CovCalled
    /\ covOut.kind = "ok"
    /\ covOut.covered
    /\ covOut.pct.num * 10 = 999 * covOut.pct.den

SelCalled == covMode = "sel" /\ selOut # NoResult

ItemsOfDay(items, d) ==
    { items[i] : i \in { j \in 1..Len(items) : DateOf(items[j]) = d } }

DaysOf(items) == { DateOf(items[i]) : i \in 1..Len(items) }

UnionOfFootprints(tiles) == UNION { t.fp : t \in tiles }

\* the evaluator returns and its verdict is "fully covered"
JudgedCovered(aoi, g) ==
    LET c == check_coverage(aoi, g) IN c.kind = "ok" /\ c.covered

RetainedDates(dates) == { dates[k].date : k \in 1..Len(dates) }

\* C5: selection retains a date iff the union of the footprints of all tiles
\* of that date fully covers the AOI per the coverage evaluator; a retained
\* date maps to all tiles of that calendar day and only those; a partially
\* covering date does not appear in the result.
C5_SelectionIffCovered ==
    (SelCalled /\ selOut.kind = "ok") =>
        /\ \A d \in Days :
              d \in RetainedDates(selOut.dates) <=>
                 /\ ItemsOfDay(selItems, d) # {}
                 /\ JudgedCovered(covAoi,
                        UnionOfFootprints(ItemsOfDay(selItems, d)))
        /\ \A k \in 1..Len(selOut.dates) :
              /\ SeqToSet(selOut.dates[k].items)
                    = ItemsOfDay(selItems, selOut.dates[k].date)
              /\ Len(selOut.dates[k].items)
                    = Cardinality(ItemsOfDay(selItems, selOut.dates[k].date))
        /\ \A k1, k2 \in 1..Len(selOut.dates) :
              selOut.dates[k1].date = selOut.dates[k2].date => k1 = k2

\* one date kept although no single tile of it covers the AOI, another date
\* with tiles dropped
C5_Witness ==
    /\ SelCalled
    /\ selOut.kind = "ok"
    /\ \E k \in 1..Len(selOut.dates) :
          /\ Len(selOut.dates[k].items) >= 2
          /\ \A j \in 1..Len(selOut.dates[k].items) :
                ~JudgedCovered(covAoi, selOut.dates[k].items[j].fp)
    /\ \E d \in DaysOf(selItems) : d \notin RetainedDates(selOut.dates)

(***************************************************************************)
(* Claims on load_and_crop_bands (SpecLoad).                               *)
(***************************************************************************)
Positions(log, e) == { i \in 1..Len(log) : log[i].ev = e }

Count(log, e) == Cardinality(Positions(log, e))

\* the number of e-events of log at or before position i
Rank(log, e, i) == Cardinality({ j \in Positions(log, e) : j <= i })

EndsWith(log, e) == Len(log) > 0 /\ log[Len(log)].ev = e

OpenLogOk(log) ==
    /\ Count(log, "fail") + Count(log, "ok") <= 3
    /\ Count(log, "ok") <= 1
    /\ \A i \in Positions(log, "ok") : i = Len(log)
    /\ \A i \in Positions(log, "sleep") :
          log[i].secs = 2 /\ i > 1 /\ log[i - 1].ev = "fail"
    /\ \A i \in Positions(log, "fail") :
          IF Rank(log, "fail", i) = 3
          THEN i = Len(log)
          ELSE i < Len(log) /\ log[i + 1].ev = "sleep"

\* C9: each tile's asset open is attempted at most max_retries (3) times; the
\* first success ends the attempts for the tile and adds exactly one handle;
\* a 2 s delay follows every failed attempt except the last and never a
\* success; past the open phase src_files holds exactly one handle per tile,
\* in tile-list order.
C9_OpenRetry ==
    ldPc # "off" =>
        /\ \A t \in DOMAIN openLog : OpenLogOk(openLog[t])
        /\ ldPc = "open" =>
              /\ { t \in DOMAIN openLog : EndsWith(openLog[t], "ok") }
                    = 1..Len(srcFiles)
              /\ \A i \in 1..Len(srcFiles) : srcFiles[i].tile = ldItems[i].id
        /\ ldPc \in {"merge", "crop", "finish"} =>
              /\ Len(srcFiles) = Len(ldItems)
              /\ \A i \in 1..Len(srcFiles) : srcFiles[i].tile = ldItems[i].id
              /\ \A t \in DOMAIN openLog : EndsWith(openLog[t], "ok")

\* two tiles: the first opened at the third attempt, the second at the first
C9_Witness ==
    /\ ldPc = "merge"
    /\ Len(ldItems) = 2
    /\ Count(openLog[1], "fail") = 2
    /\ Count(openLog[1], "sleep") = 2
    /\ EndsWith(openLog[1], "ok")
    /\ Len(openLog[2]) = 1
    /\ Len(srcFiles) = 2

LoadFailedInCrop ==
    ldPc = "raised" /\ Count(cropLog, "crop_fail") > 0

\* C10 (as stated): for one tile or several, a failed crop is retried until
\* it succeeds or max_retries crop attempts were made, so a load that fails
\* in the crop step has made max_retries crop attempts.
C10_Original ==
    LoadFailedInCrop => Count(cropLog, "crop_fail") = 3

\* C10 (amended): with exactly one tile a failed crop is retried until it
\* succeeds, max_retries attempts were made, or the re-open before a retry
\* raises (which fails the load at once); each retry is preceded by a 3 s
\* delay, the closing of the handle and the re-signing and re-opening of the
\* asset; after the last failed attempt the load fails.  With several tiles
\* the crop of the mosaic is attempted once and its failure fails the load.
C10_CropRetrySingleTile ==
    ldPc # "off" =>
        /\ Len(ldItems) = 1 =>
              /\ Count(cropLog, "crop_fail") + Count(cropLog, "crop_ok") <= 3
              /\ \A i \in Positions(cropLog, "crop_fail") :
                    IF Rank(cropLog, "crop_fail", i) = 3
                    THEN i = Len(cropLog) /\ ldPc = "raised" /\ ldOut.op = "crop"
                    ELSE /\ i + 3 <= Len(cropLog)
                         /\ cropLog[i + 1] = Sleep(3)
                         /\ cropLog[i + 2].ev = "close"
                         /\ cropLog[i + 3].ev \in {"reopen_ok", "reopen_fail"}
              /\ \A i \in Positions(cropLog, "sleep") :
                    i > 1 /\ cropLog[i - 1].ev = "crop_fail"
              /\ \A i \in Positions(cropLog, "reopen_fail") :
                    i = Len(cropLog) /\ ldPc = "raised" /\ ldOut.op = "reopen"
              /\ \A i \in Positions(cropLog, "crop_ok") : i = Len(cropLog)
              /\ ldPc = "crop" =>
                    /\ Len(srcFiles) = 1
                    /\ srcFiles[1].gen = Count(cropLog, "reopen_ok")
                    /\ openHandles = {srcFiles[1]}
        /\ Len(ldItems) > 1 =>
              /\ Len(cropLog) <= 1
              /\ \A i \in 1..Len(cropLog) : cropLog[i].ev \in {"crop_ok", "crop_fail"}
              /\ EndsWith(cropLog, "crop_fail") => (ldPc = "raised" /\ ldOut.op = "crop")

\* one tile: the crop fails twice, the asset is re-opened twice, the third
\* crop succeeds
C10_Witness ==
    /\ ldPc = "finish"
    /\ Len(ldItems) = 1
    /\ Count(cropLog, "crop_fail") = 2
    /\ Count(cropLog, "reopen_ok") = 2
    /\ EndsWith(cropLog, "crop_ok")

(***************************************************************************)
(* process_aoi with load_and_crop_bands run step by step (SpecRun): the    *)
(* call of line 143 starts the loader on the date's tiles, the loader's    *)
(* own steps follow, and its return or exception continues the date.  The  *)
(* program is sequential and every external call is taken to return or     *)
(* raise, so its next step is always eventually taken (weak fairness).     *)
(***************************************************************************)
\* the band assets tried in a whole run: all on one grid, or blue on another
RunGrids == { <<1, 1, 1>>, <<1, 1, 2>> }

\* the tiles of the current date as load_and_crop_bands sees them
RunItemSeqs ==
    LET items == SortedDates[dateIdx].items
    IN  { [i \in 1..Len(items) |-> [id |-> items[i].id, crs |-> f[i]]] :
            f \in [1..Len(items) -> 1..MaxCrs] }

\* line 143: the call load_and_crop_bands(items, aoi_geometry, config['bands'])
PaLoadStart ==
    /\ pc = "load"
    /\ ldPc = "off"
    /\ pc' = "loading"
    /\ ldPc' = "open"
    /\ ldItems' \in RunItemSeqs
    /\ ldGrids' \in RunGrids
    /\ ldAoiSmall' = FALSE
    /\ openLog' = [i \in 1..Len(ldItems') |-> <<>>]
    /\ UNCHANGED <<ldBand, ldItem, ldAttempt, srcFiles, openHandles, memFiles, cropLog,
                   ldMosaic, rgbBands, ldOut>>
    /\ UNCHANGED <<paCause, loc, folder, aoiGeom, catItems, datesDict, dateIdx,
                   processed, dirs, doc>>
    /\ UNCHANGED <<twVars, rsVars, covVars, drvVars, dateVars>>

\* the loader's frame is gone once the call is over
LdForget ==
    /\ ldPc' = "off"
    /\ ldItems' = <<>>
    /\ ldGrids' = <<>>
    /\ ldAoiSmall' = FALSE
    /\ memFiles' = {}
    /\ ldBand' = 1
    /\ ldItem' = 1
    /\ ldAttempt' = 0
    /\ srcFiles' = <<>>
    /\ openHandles' = {}
    /\ openLog' = <<>>
    /\ cropLog' = <<>>
    /\ ldMosaic' = NoResult
    /\ rgbBands' = <<>>
    /\ ldOut' = NoResult

\* lines 143-158: the loader's return, then the all-zero check; or the
\* loader's exception, caught at line 220
PaLoadEnd ==
    /\ pc = "loading"
    /\ ldPc \in {"returned", "raised"}
    /\ IF ldOut.kind = "ok"
       THEN \E smp \in RasterSamples :
               /\ rgb' = [kind |-> "raster", samples |-> smp, stage |-> "cropped"]
               /\ profile' = "loaded"
               /\ DateCall("load", "ok", "-",
                           IF IsAllZero(rgb') THEN "date_end" ELSE "resample")
       ELSE /\ DateCall("load", "raised", "-", "date_end")
            /\ UNCHANGED <<rgb, profile>>
    /\ LdForget
    /\ UNCHANGED <<tif, jpg, rgbNormalized, doc>>

RunNext ==
    \/ PaSearch
    \/ PaDateStart
    \/ PaSkipRead
    \/ PaSkipMeta
    \/ PaLoadStart
    \/ LdOpen
    \/ LdMerge
    \/ LdCrop
    \/ LdFinishBand
    \/ PaLoadEnd
    \/ PaResample
    \/ PaExportTif
    \/ PaNormalize
    \/ PaExportJpg
    \/ PaMeta
    \/ PaNextDate

SpecRun == AoiInit /\ [][RunNext]_vars /\ WF_vars(RunNext)

(***************************************************************************)
(* process_aoi called twice for the same AOI with the same search result   *)
(* (SpecRerun).  The output files outlive the call: disk keeps, per date,  *)
(* the GeoTIFF and the JPEG of the dates that are not being processed; the *)
(* existence checks of line 107 read it and the end of a date's iteration  *)
(* stores what the iteration left.  doc.txt outlives the call as well.     *)
(***************************************************************************)
\* the files some earlier execution may have left
InitialDisks == [Days -> [tif : {"none", "old"}, jpg : {"none", "old"}]]

\* a file as a call finds it: absent, or there before the call
AtStart(f) == IF Exists(f) THEN "old" ELSE "none"

RerunInit ==
    /\ AoiStart
    /\ runNo = 1
    /\ disk \in InitialDisks
    /\ firstItems = <<>>
    /\ runLog = <<>>

\* lines 55-65; the second call gets the search result of the first
TwSearch ==
    /\ PaSearch
    /\ runNo = 2 => (pc' # "exc" /\ catItems' = firstItems)

\* lines 71-109, with os.path.exists answering from the files on disk
TwDateStart ==
    /\ PaDateStart
    /\ tif0' = AtStart(disk[SortedDates[dateIdx].date].tif)
    /\ jpg0' = AtStart(disk[SortedDates[dateIdx].date].jpg)

\* what the iteration of a date did and left, as the loop moves on
DateRecord ==
    [run |-> runNo, date |-> SortedDates[dateIdx].date, calls |-> calls,
     tif0 |-> tif0, jpg0 |-> jpg0, tif |-> tif, jpg |-> jpg]

\* a file the iteration did not touch stays as it was on disk
LeftOnDisk(before, found, now) == IF now = found THEN before ELSE now

TwNextDate ==
    /\ NextDate
    /\ disk' = [disk EXCEPT ![SortedDates[dateIdx].date] =
                   [tif |-> LeftOnDisk(@.tif, tif0, tif),
                    jpg |-> LeftOnDisk(@.jpg, jpg0, jpg)]]
    /\ runLog' = Append(runLog, DateRecord)
    /\ UNCHANGED <<runNo, firstItems>>

\* the program is run again: process_aoi is called with the same arguments
TwSecondCall ==
    /\ runNo = 1
    /\ pc = "ret"
    /\ runNo' = 2
    /\ firstItems' = catItems
    /\ EnterProcessAoi(loc, folder, aoiGeom)
    /\ UNCHANGED <<disk, runLog>>
    /\ UNCHANGED <<rsVars, covVars, ldVars, drvVars>>

RerunNext ==
    \/ TwSearch
    \/ TwDateStart
    \/ PaSkipRead
    \/ PaSkipMeta
    \/ PaLoad
    \/ PaResample
    \/ PaExportTif
    \/ PaNormalize
    \/ PaExportJpg
    \/ PaMeta
    \/ TwNextDate
    \/ TwSecondCall

SpecRerun == RerunInit /\ [][RerunNext]_vars

(***************************************************************************)
(* The shapefile part of the driver with the iterations of every call kept *)
(* (SpecFeat): one process_aoi call for the unified AOI, or one call per   *)
(* feature, into one folder per feature or into one shared folder.         *)
(***************************************************************************)
FeatInit ==
    /\ DrvInit
    /\ shpLeft = MaxShp
    /\ coordLeft = 0
    /\ ~ overallPending

\* how the write_metadata_doc call of the iteration under way ended, if made
MetaResult ==
    LET made == { i \in 1..Len(calls) : calls[i].op = "write_metadata_doc" }
    IN  IF made = {} THEN "none" ELSE calls[CHOOSE i \in made : TRUE].res

\* the metadata generation of one iteration: for which location and date,
\* into which folder, with which result
MetaRecord ==
    [loc |-> loc, folder |-> folder, date |-> SortedDates[dateIdx].date,
     meta |-> MetaResult]

FeatNextDate ==
    /\ NextDate
    /\ runLog' = Append(runLog, MetaRecord)
    /\ UNCHANGED <<runNo, disk, firstItems>>

FeatNext ==
    \/ DrvShapefile
    \/ DrvFeature
    \/ DrvAfterCall
    \/ PaSearch
    \/ PaDateStart
    \/ PaSkipRead
    \/ PaSkipMeta
    \/ PaLoad
    \/ PaResample
    \/ PaExportTif
    \/ PaNormalize
    \/ PaExportJpg
    \/ PaMeta
    \/ FeatNextDate

SpecFeat == FeatInit /\ [][FeatNext]_vars

(***************************************************************************)
(* Claims on process_aoi (SpecAoi) and on the driver (Spec).               *)
(***************************************************************************)
HasCall(op) == \E i \in 1..Len(calls) : calls[i].op = op

HasCallRes(op, res) == \E i \in 1..Len(calls) : calls[i].op = op /\ calls[i].res = res

DatesOf(groups) == [i \in 1..Len(groups) |-> groups[i].date]

Ascending(q) == \A i, j \in 1..Len(q) : i < j => q[i] < q[j]

AoiEnded == pc \in {"ret", "exc"}

\* C1 (as stated): whatever step of a date raises -- output-directory
\* creation included -- the exception is caught, every later date of the
\* list is still processed, and process_aoi does not end with an exception
\* because of that date.
C1_Original ==
    (AoiEnded /\ Len(datesDict) > 0) =>
        /\ pc = "ret"
        /\ processed = DatesOf(SortedDates)

AllWorkDone == shpLeft = 0 /\ coordLeft = 0 /\ ~overallPending

\* C2 (as stated): an exception while constructing, searching or processing
\* any one AOI is caught, every remaining configured AOI is still processed,
\* and the run always reaches the final summary.
C2_Original ==
    /\ phase # "crashed"
    /\ phase = "done" => AllWorkDone

\* the date's loop body got past the directory creation
DateReached == HasCallRes("makedirs", "ok")

SkipPath == pc \in {"skip_read", "skip_meta"} \/ HasCall("open_tif")

ReprocessOps == {"load", "resample", "normalize", "export_geotiff", "export_jpeg"}

SkipFrame ==
    /\ \A i \in 1..Len(calls) : calls[i].op \notin ReprocessOps
    /\ tif = tif0
    /\ jpg = jpg0

LoadedAllZero ==
    /\ HasCallRes("load", "ok")
    /\ rgb.kind = "raster"
    /\ rgb.samples = {0}

\* C4: when the loader returns an all-zero raster, none of resample, GeoTIFF
\* export, normalize, JPEG export and metadata generation is performed for
\* the date, no exception is raised, no output file is created for the date,
\* and the next date follows.
C4_AllZeroSkips ==
    LoadedAllZero =>
        /\ calls = << Call("makedirs", "ok", "-"), Call("load", "ok", "-") >>
        /\ pc \in {"date_end", "date", "ret"}
        /\ tif = tif0
        /\ jpg = jpg0
        /\ pc = "date" => dateIdx = Len(processed) + 1
        /\ pc = "ret" => processed = DatesOf(SortedDates)

\* an all-zero first date, and the loop at the second date
C4_Witness ==
    /\ LoadedAllZero
    /\ pc = "date"
    /\ dateIdx = 2
    /\ jpg = "none"

CatalogAnswered == pc # "search" /\ paCause # "catalog" /\ phase = "call"

\* C6: the dates returned by selection are in ascending order whatever the
\* order in which the catalog returned the tiles, and process_aoi goes
\* through the dates of an AOI in ascending order.
C6_AscendingDates ==
    CatalogAnswered =>
        /\ Ascending(DatesOf(datesDict))
        /\ Ascending(processed)
        /\ \A i \in 1..Len(processed) : processed[i] = DatesOf(datesDict)[i]
        /\ RetainedDates(datesDict) \subseteq DaysOf(catItems)

\* the catalog returned a later day first; both days were processed
C6_Witness ==
    /\ CatalogAnswered
    /\ Len(catItems) = 2
    /\ DateOf(catItems[1]) > DateOf(catItems[2])
    /\ Len(processed) = 2
    /\ pc = "ret"

DayVerdict(d) == check_coverage(aoiGeom, UnionOfFootprints(ItemsOfDay(catItems, d)))

EmptyReturn ==
    /\ datesDict = <<>>
    /\ pc = "ret"
    /\ paCause = "none"
    /\ calls = <<>>
    /\ processed = <<>>
    /\ dirs = {}
    /\ tif = "none" /\ jpg = "none"
    /\ doc = NoDoc

\* C7 (as stated): when the catalog returns no tiles, or no date's merged
\* footprint is found to cover the AOI, selection returns an empty mapping
\* without raising, and process_aoi returns normally without calling load
\* and without creating an output file or directory.
C7_Original ==
    (CatalogAnswered /\ \A d \in DaysOf(catItems) :
                           ~(DayVerdict(d).kind = "ok" /\ DayVerdict(d).covered))
        => EmptyReturn

\* C7 (amended): when the catalog returns no tiles, or the evaluator answers
\* "not covered" for every date's merged footprint, selection returns an
\* empty mapping and process_aoi returns normally without load, output file
\* or directory; when the evaluator raises for a date (an AOI of zero area
\* that the date's footprint intersects), selection raises too and
\* process_aoi ends with that exception, again without load, file or directory.
C7_EmptySelectionReturns ==
    /\ (CatalogAnswered /\ \A d \in DaysOf(catItems) :
                              DayVerdict(d).kind = "ok" /\ ~DayVerdict(d).covered)
          => EmptyReturn
    /\ (CatalogAnswered /\ \E d \in DaysOf(catItems) : DayVerdict(d).kind = "raised")
          => /\ pc = "exc"
             /\ paCause = "coverage"
             /\ datesDict = <<>>
             /\ calls = <<>>
             /\ processed = <<>>
             /\ dirs = {}
             /\ tif = "none" /\ jpg = "none"

\* tiles were returned, none of their dates covers the AOI
C7_Witness ==
    /\ CatalogAnswered
    /\ Len(catItems) = 2
    /\ Area(aoiGeom) > 0
    /\ \A d \in DaysOf(catItems) : DayVerdict(d).kind = "ok" /\ ~DayVerdict(d).covered
    /\ pc = "ret"

(***************************************************************************)
(* Claims on the frames, handles and result of load_and_crop_bands          *)
(* (SpecLoad).                                                             *)
(***************************************************************************)
FirstTileCrs == ldItems[1].crs

TilesDiffer == \E i \in 1..Len(ldItems) : ldItems[i].crs # FirstTileCrs

\* C11: for each band the target frame is the frame of the first-listed
\* tile; a tile whose frame differs is reprojected into it before merging, a
\* tile already in it is merged as it is; the mosaic, the crop and the
\* returned profile are in the first tile's frame.
C11_TargetFrameFirstTile ==
    ldPc # "off" =>
        /\ ldPc \in {"merge", "crop", "finish"} => TargetCrs = FirstTileCrs
        /\ ldMosaic.kind = "mosaic" =>
              /\ ldMosaic.crs = FirstTileCrs
              /\ Len(ldMosaic.inputs) = Len(ldItems)
              /\ \A i \in 1..Len(ldItems) :
                    /\ ldMosaic.inputs[i].tile = ldItems[i].id
                    /\ ldMosaic.inputs[i].crs = FirstTileCrs
                    /\ ldMosaic.inputs[i].band = ldBand
                    /\ IF ldItems[i].crs # FirstTileCrs
                       THEN ldMosaic.inputs[i].kind = "mem"
                       ELSE ldMosaic.inputs[i] = srcFiles[i]
        /\ \A b \in 1..Len(rgbBands) : rgbBands[b].crs = FirstTileCrs
        /\ ldOut.kind = "ok" =>
              /\ ldOut.crs = FirstTileCrs
              /\ ldOut.transform[1] = FirstTileCrs

\* two tiles in different frames: the second went into the mosaic
\* reprojected, the first as it was, and the load returned
C11_Witness ==
    /\ ldPc = "returned"
    /\ Len(ldItems) = 2
    /\ ldItems[2].crs # ldItems[1].crs
    /\ ldMosaic.kind = "mosaic"
    /\ ldMosaic.inputs[1].kind = "src"
    /\ ldMosaic.inputs[2].kind = "mem"
    /\ ldOut.kind = "ok"

OpenExhausted(t) ==
    /\ t \in DOMAIN openLog
    /\ Count(openLog[t], "fail") = MAX_RETRIES
    /\ Count(openLog[t], "ok") = 0

FailedInOpen == ldPc = "raised" /\ ldOut.op = "open"

\* nothing was opened after the tile whose open attempts are exhausted
NothingOpenedAfter(t) ==
    /\ ldItem = t
    /\ Len(srcFiles) = t - 1
    /\ \A u \in DOMAIN openLog : u > t => openLog[u] = <<>>
    /\ Len(rgbBands) = ldBand - 1
    /\ cropLog = <<>>
    /\ ldMosaic = NoResult

\* C16 (as stated): when every open attempt for a tile's band asset fails,
\* the load fails with an error that names both the band and the tile whose
\* asset could not be opened, and no further tile or band is opened.
C16_Original ==
    \A t \in DOMAIN openLog :
       OpenExhausted(t) =>
          /\ FailedInOpen
          /\ ldOut.msg.band = BandNames[ldBand]
          /\ ldOut.msg.text.href = ldItems[t].id
          /\ NothingOpenedAfter(t)

\* C16 (amended): when every open attempt for a tile's band asset fails, the
\* load fails with an error whose message names the band and the number of
\* attempts and quotes the text of the last underlying error; the tile is
\* named only as far as that text happens to quote the asset's URL; no
\* further tile or band is opened.
C16_OpenFailureNamesBand ==
    /\ \A t \in DOMAIN openLog :
          OpenExhausted(t) =>
             /\ FailedInOpen
             /\ ldOut.msg.band = BandNames[ldBand]
             /\ ldOut.msg.attempts = MAX_RETRIES
             /\ DOMAIN ldOut.msg = {"band", "attempts", "text"}
             /\ ldOut.msg.text \in ErrTexts(t)
             /\ NothingOpenedAfter(t)
    /\ FailedInOpen => OpenExhausted(ldItem)

\* the second tile of the green band could not be opened, and the error text
\* of the library does not quote its URL
C16_Witness ==
    /\ FailedInOpen
    /\ ldBand = 2
    /\ ldItem = 2
    /\ OpenExhausted(2)
    /\ ldOut.msg.band = "green"
    /\ ldOut.msg.text.href = 0
    /\ Len(srcFiles) = 1


\* a band's open loop has not made its first attempt yet
BeforeFirstOpen ==
    /\ ldPc = "open"
    /\ ldItem = 1
    /\ openLog[1] = <<>>

ThreeBandsInOrder ==
    /\ ldOut.count = 3
    /\ ldOut.order = <<"red", "green", "blue">>
    /\ Len(rgbBands) = 3
    /\ \A b \in 1..3 : rgbBands[b].band = BandNames[b]

SameShapes == \A i, j \in 1..Len(rgbBands) : rgbBands[i].shape = rgbBands[j].shape

SameTransforms ==
    \A i, j \in 1..Len(rgbBands) : rgbBands[i].transform = rgbBands[j].transform

\* C18 (as stated): the returned raster has exactly 3 bands in the order
\* red, green, blue; the three cropped bands have the same transform, height
\* and width; the returned transform is that shared crop transform and the
\* returned frame the red band's target frame; no raster whose bands were
\* cropped with differing transforms is ever returned.
C18_Original ==
    ldOut.kind = "ok" =>
        /\ ThreeBandsInOrder
        /\ SameShapes
        /\ SameTransforms
        /\ ldOut.transform = rgbBands[1].transform
        /\ ldOut.crs = rgbBands[1].crs

\* C18 (amended): the returned raster has exactly 3 bands in the order red,
\* green, blue, all of one height and width (stacking bands of different
\* shapes raises and the load fails); the returned transform is the crop
\* transform of the last (blue) band and the returned frame is the blue
\* band's target frame, which is the first tile's frame as for every band;
\* the bands' crop transforms are equal when their assets lie on one pixel
\* grid, which the loader does not check.
C18_StackedBands ==
    /\ ldOut.kind = "ok" =>
          /\ ldPc = "returned"
          /\ ThreeBandsInOrder
          /\ SameShapes
          /\ ldOut.shape = rgbBands[1].shape
          /\ ldOut.transform = rgbBands[3].transform
          /\ ldOut.crs = rgbBands[3].crs
          /\ \A b \in 1..3 : rgbBands[b].crs = ldItems[1].crs
          /\ \A i, j \in 1..3 :
                ldGrids[i] = ldGrids[j] => rgbBands[i].transform = rgbBands[j].transform
    /\ (ldPc = "raised" /\ ldOut.op = "stack") =>
          /\ Len(rgbBands) = 3
          /\ ~SameShapes
          /\ openHandles = {}
    /\ (Len(rgbBands) = 3 /\ ~SameShapes) => (ldPc = "raised" /\ ldOut.op = "stack")

\* the red band's asset lies on another grid than the blue band's, the AOI
\* is within one pixel of both: the load returns the three one-pixel bands
\* under the blue band's transform
C18_Witness ==
    /\ ldOut.kind = "ok"
    /\ ldGrids[1] # ldGrids[3]
    /\ SameShapes
    /\ ldOut.transform = rgbBands[3].transform
    /\ ldOut.transform # rgbBands[1].transform


(***************************************************************************)
(* Claims on resample_to_resolution and normalize_for_display (SpecRaster). *)
(***************************************************************************)
ResampleCalls == { i \in 1..Len(rsHist) : rsHist[i].op = "resample" }

\* |current - target| < 0.01, current being the magnitude of the horizontal
\* pixel-size term of the call's input transform
WithinTolerance(e) ==
    Abs(Abs(e.inProfValue.transform.a) - e.target) < RESOLUTION_TOLERANCE

InputUntouched(e) ==
    /\ rsHeap[e.inArr] = e.inArrValue
    /\ rsHeap[e.inProf] = e.inProfValue

\* C12: whenever |current pixel size - target| < 0.01, resample returns its
\* input unchanged: the same array and the same profile, with identical
\* width, height and transform, and no resampling is invoked.
C12_SkipReturnsInput ==
    \A i \in ResampleCalls :
       LET e == rsHist[i]
       IN  WithinTolerance(e) =>
              /\ e.res = "ok"
              /\ ~e.reprojected
              /\ e.outArr = e.inArr
              /\ e.outProf = e.inProf
              /\ InputUntouched(e)

\* a raster at 9.991 m asked for 10 m came back as it was
C12_Witness ==
    \E i \in ResampleCalls :
       /\ rsHist[i].inProfValue.transform.a = 9991
       /\ rsHist[i].target = 10000
       /\ rsHist[i].outArr = rsHist[i].inArr
       /\ rsHist[i].res = "ok"

\* n = floor(old * current / target), for positive sizes
IsFloorOf(n, old, current, target) ==
    /\ n * target <= old * current
    /\ old * current < (n + 1) * target

\* C13: when resampling is not skipped the output has width
\* floor(old_width * current / target) and height floor(old_height * current
\* / target), 3 bands, a transform with horizontal pixel size target and
\* vertical pixel size -target whose origin and rotation terms are the
\* input's, and the input's reference frame and data type; the input array
\* and profile are not modified.
C13_ResampledGeometry ==
    \A i \in ResampleCalls :
       LET e == rsHist[i]
           inp == e.inProfValue
       IN  (~WithinTolerance(e) /\ e.res = "ok") =>
              LET outp == rsHeap[e.outProf]
                  outa == rsHeap[e.outArr]
              IN  /\ e.reprojected
                  /\ e.outArr # e.inArr
                  /\ e.outProf # e.inProf
                  /\ IsFloorOf(outp.width, inp.width, inp.transform.a, e.target)
                  /\ IsFloorOf(outp.height, inp.height, inp.transform.a, e.target)
                  /\ outa.width = outp.width
                  /\ outa.height = outp.height
                  /\ outa.bands = 3
                  /\ outp.count = 3
                  /\ outp.transform.a = e.target
                  /\ outp.transform.e = -e.target
                  /\ outp.transform.b = inp.transform.b
                  /\ outp.transform.c = inp.transform.c
                  /\ outp.transform.d = inp.transform.d
                  /\ outp.transform.f = inp.transform.f
                  /\ outp.crs = inp.crs
                  /\ outp.dtype = inp.dtype
                  /\ outa.dtype = e.inArrValue.dtype
                  /\ InputUntouched(e)

\* 3 x 2 pixels at 10 m resampled to 20 m: 1 x 1 pixel
C13_Witness ==
    \E i \in ResampleCalls :
       /\ rsHist[i].res = "ok"
       /\ rsHist[i].reprojected
       /\ rsHist[i].inProfValue.transform.a = 10000
       /\ rsHist[i].target = 20000
       /\ rsHist[i].inProfValue.width = 3
       /\ rsHist[i].inProfValue.height = 2
       /\ rsHeap[rsHist[i].outProf].width = 1
       /\ rsHeap[rsHist[i].outProf].height = 1

\* call i resamples a raster of pixel size p to 2p and call i + 1 resamples
\* the result back to p
RoundTripAt(i) ==
    /\ i \in ResampleCalls
    /\ i + 1 \in ResampleCalls
    /\ rsHist[i].res = "ok"
    /\ rsHist[i + 1].res = "ok"
    /\ rsHist[i].target = 2 * rsHist[i].inProfValue.transform.a
    /\ rsHist[i + 1].inProf = rsHist[i].outProf
    /\ rsHist[i + 1].target = rsHist[i].inProfValue.transform.a

WithinOnePixel(back, orig) ==
    /\ back <= orig
    /\ orig - back <= 1
    /\ orig % 2 = 0 => back = orig

\* C19: resampling a w x h raster from pixel size p to 2p and back to p
\* gives dimensions never larger than (w, h), smaller by at most one pixel
\* each, and exactly (w, h) when w and h are even.
C19_RoundTripWithinOnePixel ==
    \A i \in 1..Len(rsHist) :
       RoundTripAt(i) =>
          LET orig == rsHist[i].inProfValue
              back == rsHeap[rsHist[i + 1].outProf]
          IN  /\ WithinOnePixel(back.width, orig.width)
              /\ WithinOnePixel(back.height, orig.height)
              /\ rsHeap[rsHist[i + 1].outArr].width = back.width
              /\ rsHeap[rsHist[i + 1].outArr].height = back.height
              /\ back.transform.a = orig.transform.a

\* 1000 x 3 at 10 m: 500 x 1 at 20 m, 1000 x 2 back at 10 m
C19_Witness ==
    /\ Len(rsHist) = 2
    /\ RoundTripAt(1)
    /\ rsHist[1].inProfValue.transform.a = 10000
    /\ rsHist[1].inProfValue.width = 1000
    /\ rsHist[1].inProfValue.height = 3
    /\ rsHeap[rsHist[1].outProf].width = 500
    /\ rsHeap[rsHist[1].outProf].height = 1
    /\ rsHeap[rsHist[2].outProf].width = 1000
    /\ rsHeap[rsHist[2].outProf].height = 2

\* round(clip(v / 10000 * 2.5, 0, 1) * 255), halves rounded up
RoundedValue(v) ==
    LET scaled == v * GAIN_PERCENT
        unit == REFLECTANCE_SCALE * 100
        clipped == IF scaled < 0 THEN 0 ELSE IF scaled > unit THEN unit ELSE scaled
    IN  (2 * clipped * 255 + unit) \div (2 * unit)

\* C14 (as stated): normalize maps every raw sample v to
\* round(clip(v / 10000 * 2.5, 0, 1) * 255) as an 8-bit value (0 to 0, 1000
\* to 64, 4000 and 10000 to 255), keeps height, width and band count, and
\* does not modify its input.
C14_Original ==
    \A i \in 1..Len(rsHist) :
       LET e == rsHist[i]
       IN  e.op = "normalize" =>
              LET out == rsHeap[e.outArr]
              IN  /\ RoundedValue(1000) = 64
                  /\ \A k \in DOMAIN out.data :
                        out.data[k] = RoundedValue(e.inArrValue.data[k])
                  /\ out.dtype = "uint8"
                  /\ out.height = e.inArrValue.height
                  /\ out.width = e.inArrValue.width
                  /\ out.bands = e.inArrValue.bands
                  /\ InputUntouched(e)

\* clip(v / 10000 * 2.5, 0, 1), in millionths
ClippedMillionths(v) ==
    IF v * 250 < 0 THEN 0 ELSE IF v * 250 > 1000000 THEN 1000000 ELSE v * 250

\* n = floor(clip(v / 10000 * 2.5, 0, 1) * 255)
IsTruncationOf(n, v) ==
    /\ n * 1000000 <= ClippedMillionths(v) * 255
    /\ ClippedMillionths(v) * 255 < (n + 1) * 1000000

ExpectedLevel(v) ==
    CASE v = 0 -> 0
      [] v = 1000 -> 63
      [] v = 2000 -> 127
      [] v = 3999 -> 254
      [] OTHER -> 255

\* C14 (amended): normalize with the default gain 2.5 maps every raw sample
\* v to clip(v / 10000 * 2.5, 0, 1) * 255 with the fraction dropped by the
\* conversion to an 8-bit unsigned value: 0 maps to 0, 1000 to 63, 4000 and
\* 10000 to 255; the output has the input's height, width and band count
\* and the input array is not modified.
C14_NormalizeTruncates ==
    \A i \in 1..Len(rsHist) :
       LET e == rsHist[i]
       IN  e.op = "normalize" =>
              LET out == rsHeap[e.outArr]
              IN  /\ e.res = "ok"
                  /\ DOMAIN out.data = DOMAIN e.inArrValue.data
                  /\ \A k \in DOMAIN out.data :
                        /\ IsTruncationOf(out.data[k], e.inArrValue.data[k])
                        /\ out.data[k] \in 0..255
                        /\ e.inArrValue.data[k] \in {0, 1000, 2000, 3999, 4000, 10000}
                              => out.data[k] = ExpectedLevel(e.inArrValue.data[k])
                  /\ out.dtype = "uint8"
                  /\ out.height = e.inArrValue.height
                  /\ out.width = e.inArrValue.width
                  /\ out.bands = e.inArrValue.bands
                  /\ e.outArr # e.inArr
                  /\ InputUntouched(e)

\* the samples 1000 and 4000 normalized to 63 and 255
C14_Witness ==
    /\ Len(rsHist) = 1
    /\ rsHist[1].op = "normalize"
    /\ rsHist[1].inArrValue.data = <<1000, 4000>>
    /\ rsHeap[rsHist[1].outArr].data = <<63, 255>>


(***************************************************************************)
(* Claims on the stages of one date in process_aoi (SpecAoi).              *)
(***************************************************************************)
\* the calls of the main try block, in the order of the source
StageOrder ==
    << "makedirs", "load", "resample", "export_geotiff", "normalize", "export_jpeg",
       "write_metadata_doc" >>

DateOver == pc \in {"date_end", "date", "ret"}

AllCallsOk == \A i \in 1..Len(calls) : calls[i].res = "ok"

\* the date of the current iteration and its tiles
CurrentDate == processed[Len(processed)]

CurrentTiles ==
    LET g == CHOOSE g \in SeqToSet(datesDict) : g.date = CurrentDate
    IN  [i \in 1..Len(g.items) |-> g.items[i].id]

\* C15: for a date that is neither skipped nor failed the stages run once
\* each in the order load, all-zero check, resample, GeoTIFF export,
\* normalize, JPEG export, metadata generation; the GeoTIFF is written from
\* the resampled raster, the JPEG from the normalization of that same
\* raster, the metadata document from the resampled raster's profile and the
\* date's tile list.
C15_StageOrder ==
    (DateReached /\ ~SkipPath) =>
        /\ Len(calls) <= Len(StageOrder)
        /\ \A i \in 1..Len(calls) :
              /\ calls[i].op = StageOrder[i]
              /\ i < Len(calls) => calls[i].res = "ok"
        /\ HasCall("resample") => ~IsAllZero(rgb)
        /\ (DateOver /\ AllCallsOk /\ rgb.kind = "raster" /\ ~IsAllZero(rgb)) =>
              /\ Len(calls) = Len(StageOrder)
              /\ rgb.stage = "resampled"
              /\ calls[4].arg = "resampled"
              /\ calls[5].arg = "resampled"
              /\ rgbNormalized = Normalized(rgb)
              /\ calls[6].arg = "normalized"
              /\ calls[7].arg = "resampled"
              /\ tif = "new"
              /\ jpg = "new"
              /\ doc = [kind |-> "doc", loc |-> loc, date |-> CurrentDate,
                        tiles |-> CurrentTiles, profile |-> "resampled"]

\* a date with non-zero samples went through all the stages
C15_Witness ==
    /\ pc = "date_end"
    /\ DateReached
    /\ ~SkipPath
    /\ Len(calls) = 7
    /\ AllCallsOk
    /\ rgb.samples = {0, 1000}
    /\ rgbNormalized.samples = {0, 63}
    /\ tif = "new"
    /\ jpg = "new"
    /\ doc.kind = "doc"

(***************************************************************************)
(* Claims on the termination of process_aoi (SpecRun).                     *)
(***************************************************************************)
\* at most max_retries open attempts per tile of the band, at most
\* max_retries crop attempts for the band
RetryBounds ==
    /\ \A t \in DOMAIN openLog :
          Count(openLog[t], "fail") + Count(openLog[t], "ok") <= MAX_RETRIES
    /\ Count(cropLog, "crop_fail") + Count(cropLog, "crop_ok") <= MAX_RETRIES
    /\ ldAttempt < MAX_RETRIES
    /\ \A i, j \in 1..Len(processed) : i # j => processed[i] # processed[j]

\* a step never goes back to a date or to a band that is over
NoRevisit ==
    /\ dateIdx' >= dateIdx
    /\ (pc = "date_end" /\ pc' = "date") => dateIdx' = dateIdx + 1
    /\ pc \in {"ret", "exc"} => pc' = pc
    /\ (ldPc # "off" /\ ldPc' # "off") => ldBand' >= ldBand
    /\ (ldPc = "finish" /\ ldPc' = "open") => ldBand' = ldBand + 1
    /\ ldPc \in {"returned", "raised"} => ldPc' \in {ldPc, "off"}

\* C20: with every external call returning or raising, process_aoi
\* terminates: each open loop makes at most max_retries attempts per tile
\* per band, each crop loop at most max_retries attempts per band, and no
\* date or band is revisited after it succeeded or failed.
C20_Terminates ==
    /\ []RetryBounds
    /\ [][NoRevisit]_vars
    /\ <>AoiEnded

\* the load of the second date returns after two failed opens and two
\* failed crops of its last band
C20_Witness ==
    /\ pc = "loading"
    /\ dateIdx = 2
    /\ ldPc = "returned"
    /\ ldBand = 3
    /\ Count(openLog[1], "fail") = 2
    /\ Count(cropLog, "crop_fail") = 2
    /\ EndsWith(cropLog, "crop_ok")

(***************************************************************************)
(* Claims on the handles of a failed load_and_crop_bands (SpecLoad).       *)
(***************************************************************************)
\* the datasets returned by rasterio.open that nobody has closed
SourceHandlesOpen == { h \in openHandles : h.kind = "src" }

LoadFailed == ldPc = "raised" /\ ldOut.kind = "raised"

\* C21 (as stated): when load_and_crop_bands fails -- open retries exhausted
\* for some tile, a reopen during a crop retry raises, merge or reprojection
\* raises, or crop retries are exhausted -- every source handle opened during
\* the call has been closed when the exception reaches the caller.
C21_Original == LoadFailed => SourceHandlesOpen = {}

\* the failures that do leave nothing open: the first tile of a band cannot
\* be opened, the reopen of a crop retry raises, np.stack raises
C21_ClosedOnlyWhen ==
    (LoadFailed /\ SourceHandlesOpen = {}) =>
        \/ ldOut.op = "open" /\ ldItem = 1
        \/ ldOut.op = "reopen"
        \/ ldOut.op = "stack"

(***************************************************************************)
(* Claims on the output files across two calls of process_aoi (SpecRerun). *)
(***************************************************************************)
\* the iteration of a date is under way, past the head of the loop body
InProgress ==
    pc \in {"skip_read", "skip_meta", "load", "resample", "export_tif", "normalize",
            "export_jpg", "meta", "date_end"}

\* the iterations finished so far, and the one under way as it stands now
Records == SeqToSet(runLog) \cup (IF InProgress THEN {DateRecord} ELSE {})

CallAt(e, op, res) ==
    { i \in 1..Len(e.calls) : e.calls[i].op = op /\ e.calls[i].res = res }

Called(e, op) == \E i \in 1..Len(e.calls) : e.calls[i].op = op

StartedEmpty(e) == e.tif0 = "none" /\ e.jpg0 = "none"

\* the GeoTIFF export returned and the JPEG export was never called: the
\* statements between the two raised
FailedBetween(e) ==
    /\ CallAt(e, "export_geotiff", "ok") # {}
    /\ ~ Called(e, "export_jpeg")
    /\ e \in SeqToSet(runLog) \/ pc = "date_end"

\* the metadata call of an iteration comes after both exports returned
MetaAfterBoth(e) ==
    \A m \in 1..Len(e.calls) :
        e.calls[m].op = "write_metadata_doc" =>
            /\ \E i \in CallAt(e, "export_geotiff", "ok") : i < m
            /\ \E j \in CallAt(e, "export_jpeg", "ok") : j < m

\* the date of e, when a later call reaches it, takes the reprocessing path
ReprocessedLater(e) ==
    \A n \in Records :
        (n.run > e.run /\ n.date = e.date) =>
            /\ n.tif0 = "old" /\ n.jpg0 = "none"
            /\ ~ Called(n, "open_tif")
            /\ Called(n, "load") \/ (n = DateRecord /\ pc = "load")

\* the files of the dates that are not in progress are those the last
\* iteration of the date left
DiskAsLeft ==
    \A i \in 1..Len(runLog) :
        (\A k \in (i + 1)..Len(runLog) : runLog[k].date # runLog[i].date) =>
            LET e == runLog[i]
            IN  (~ InProgress \/ DateRecord.date # e.date) =>
                   /\ Exists(disk[e.date].tif) <=> Exists(e.tif)
                   /\ Exists(disk[e.date].jpg) <=> Exists(e.jpg)

\* C22: in an iteration that finds neither output file of its date, at every
\* point the JPEG exists only if the GeoTIFF exists, and metadata generation
\* is called only after both exports returned; a failure between the two
\* exports leaves the GeoTIFF without a JPEG, and the next call of
\* process_aoi does not skip that date but reprocesses it.
C22_JpegOnlyAfterTif ==
    /\ DiskAsLeft
    /\ \A e \in Records :
          StartedEmpty(e) =>
             /\ Exists(e.jpg) => e.tif = "new"
             /\ MetaAfterBoth(e)
             /\ Called(e, "write_metadata_doc") => (e.tif = "new" /\ e.jpg = "new")
             /\ FailedBetween(e) =>
                   /\ e.tif = "new"
                   /\ e.jpg = "none"
                   /\ ReprocessedLater(e)

\* the second call has reloaded a date whose first iteration failed between
\* the two exports
C22_Witness ==
    /\ runNo = 2
    /\ \E e \in SeqToSet(runLog) :
          /\ e.run = 1
          /\ StartedEmpty(e)
          /\ FailedBetween(e)
          /\ \E n \in Records : n.run = 2 /\ n.date = e.date /\ Called(n, "load")

RunEntries(r) == { e \in SeqToSet(runLog) : e.run = r }

\* the iteration reached line 218: every call of the main try block returned
Succeeded(e) ==
    /\ \A i \in 1..Len(e.calls) : e.calls[i].res = "ok"
    /\ \A op \in ReprocessOps \cup {"write_metadata_doc"} : Called(e, op)

\* the dates the search of the first call retained
FirstDates ==
    LET r == search_sentinel2_images(firstItems, aoiGeom)
    IN  IF r.kind = "raised" THEN {} ELSE SeqToSet(DatesOf(r.dates))

\* the first call processed every date successfully
FirstCallAllOk ==
    /\ runNo = 2
    /\ FirstDates # {}
    /\ \A d \in FirstDates : \E e \in RunEntries(1) : e.date = d /\ Succeeded(e)

SkipOps == {"makedirs", "open_tif", "write_metadata_doc"}

\* the metadata call of the iteration under way has just returned
MetaJustWritten ==
    /\ pc = "date_end"
    /\ calls # <<>>
    /\ calls[Len(calls)] = Call("write_metadata_doc", "ok", "existing_tif")

\* C23: when process_aoi is called a second time for the same AOI with the
\* same search result after a call that processed every date successfully,
\* no date is loaded, resampled, normalized or exported, every GeoTIFF and
\* JPEG stays as the first call left it, and the one file written is the
\* metadata document, from the profile of the existing GeoTIFF.
C23_SecondCallOnlyMetadata ==
    FirstCallAllOk =>
        /\ \A e \in Records :
              e.run = 2 =>
                 /\ e.date \in FirstDates
                 /\ \A i \in 1..Len(e.calls) : e.calls[i].op \in SkipOps
                 /\ e.tif0 = "old" /\ e.tif = e.tif0
                 /\ e.jpg0 = "old" /\ e.jpg = e.jpg0
        /\ \A d \in FirstDates : disk[d] = [tif |-> "new", jpg |-> "new"]
        /\ pc # "exc"
        /\ MetaJustWritten =>
              /\ doc.kind = "doc"
              /\ doc.date = DateRecord.date
              /\ doc.profile = "existing_tif"

\* the second call is over: it went through two dates that the first call
\* had processed, and rewrote the metadata document
C23_Witness ==
    /\ FirstCallAllOk
    /\ pc = "ret"
    /\ Cardinality(FirstDates) = 2
    /\ Cardinality(RunEntries(2)) = 2
    /\ \A e \in RunEntries(2) : CallAt(e, "write_metadata_doc", "ok") # {}
    /\ doc.kind = "doc" /\ doc.profile = "existing_tif"

(***************************************************************************)
(* Claims on the metadata document of a folder (SpecFeat).                 *)
(***************************************************************************)
\* the metadata generations so far, in order: those of the finished
\* iterations, then that of the iteration under way
MetaLog == runLog \o (IF InProgress THEN << MetaRecord >> ELSE <<>>)

\* those that went into the folder at hand
IntoFolder == { i \in 1..Len(MetaLog) : MetaLog[i].folder = folder }

WroteDoc == { i \in IntoFolder : MetaLog[i].meta = "ok" }

FailedDoc == { i \in IntoFolder : MetaLog[i].meta = "raised" }

LastWritten == MetaLog[SetMax(WroteDoc)]

\* the calls into one folder come feature after feature, and the dates of
\* one call in ascending order
InProcessingOrder ==
    \A i, j \in IntoFolder :
        i < j => \/ MetaLog[i].loc.feat < MetaLog[j].loc.feat
                 \/ MetaLog[i].loc = MetaLog[j].loc /\ MetaLog[i].date < MetaLog[j].date

\* C24: doc.txt is one file per output folder, rewritten by every metadata
\* generation: it describes one location and one date, those of the last
\* generation that wrote it -- within one call the last such date in
\* ascending order, and in a shared folder the last such date of the last
\* such feature -- and nothing of any earlier date or feature.
C24_DocDescribesLastDate ==
    /\ InProcessingOrder
    /\ doc.kind \in {"none", "doc", "partial"}
    /\ doc.kind = "doc" =>
          /\ WroteDoc # {}
          /\ doc.loc = LastWritten.loc
          /\ doc.date = LastWritten.date
          /\ \A i \in WroteDoc :
                \/ MetaLog[i].loc.feat < doc.loc.feat
                \/ MetaLog[i].loc = doc.loc /\ MetaLog[i].date <= doc.date
    /\ (WroteDoc # {} /\ \A i \in FailedDoc : i < SetMax(WroteDoc)) => doc.kind = "doc"
    /\ doc.kind = "partial" => FailedDoc # {}
    /\ (WroteDoc = {} /\ FailedDoc = {}) => doc = NoDoc

\* the second feature of a shared folder has returned after writing the
\* document for two dates, over the document of the first feature
C24_Witness ==
    /\ sharedFolder
    /\ featIdx = 2
    /\ pc = "ret"
    /\ Cardinality({ i \in WroteDoc : MetaLog[i].loc.feat = 1 }) >= 1
    /\ Cardinality({ i \in WroteDoc : MetaLog[i].loc.feat = 2 }) = 2
    /\ doc.kind = "doc"
    /\ doc.loc.feat = 2
    /\ doc.date = 2

====
